---------------------------- MODULE Spec2Model ----------------------------
(***************************************************************************)
(* A model of the redux-saga core kept in this repository: the scheduler   *)
(* (scheduler.js), the channels (channel.js) and the effect interpreter    *)
(* (proc.js).                                                              *)
(*                                                                         *)
(* JavaScript runs every external call to completion on one thread, so an  *)
(* action of the model is one external call (an asap, a put, a take, a     *)
(* dispatch, a task.cancel(), a callback fired by the host) together with  *)
(* everything it calls.  Each function of the source is an operator from   *)
(* the program state (a record s) to the program state after the call;     *)
(* a pending exception is carried in s.exc and tested after every call     *)
(* that can throw.  What happens in the middle of a call (which callback   *)
(* ran while which other call was on the stack) is kept in observation     *)
(* fields of the state, written at the place where the source does the     *)
(* thing observed.                                                         *)
(***************************************************************************)
EXTENDS Integers, Sequences, FiniteSets, TLC

VARIABLES
  semaphore,   \* scheduler.js: let semaphore
  queue,       \* scheduler.js: const queue
  sobs,        \* observations of the scheduler
  chans,       \* channel.js: the single-consumer channels created so far
  cobs,        \* observations of the single-consumer channels
  mc,          \* channel.js: a multicast channel (closed, currentTakers, nextTakers)
  mobs,        \* observations of the multicast channel
  procs,       \* proc.js: the calls of proc(), with what each closes over
  effects,     \* proc.js: the calls of digestEffect(), with what each closes over
  pobs,        \* observations of the sagas
  evt,         \* channel.js: what an event channel closes over, and observations
  steps        \* number of external calls made so far

vars == <<semaphore, queue, sobs, chans, cobs, mc, mobs, procs, effects, pobs, evt, steps>>

----------------------------------------------------------------------------
(* Bounds *)

\* external calls into the scheduler in one behaviour
MaxSchedSteps == 3
\* external suspend() calls that may be open at once
MaxLocks == 2
\* external calls into a single-consumer channel in one behaviour
MaxChanSteps == 3
\* capacity of the bounded buffers
BufLimit == 1
\* external calls into a multicast channel in one behaviour
MaxMcSteps == 3
MaxSnapSteps == 4
\* external calls into an event channel in one behaviour, eventChannel() included
MaxEvtSteps == 4

----------------------------------------------------------------------------
(* Values.  Every value is a record with a kind k: an action or a channel  *)
(* message carries its type in a.                                          *)

\* an action; saga is the SAGA_ACTION flag
Act(type) == [k |-> "act", a |-> type, saga |-> FALSE]
END == [k |-> "END", a |-> "@@redux-saga/CHANNEL_END"]
isEnd(v) == v.k = "END"
\* the array buffer.flush() returns
List(items) == [k |-> "list", a |-> "", items |-> items]
Undef == [k |-> "undef", a |-> ""]
Bool(b) == [k |-> "bool", a |-> IF b THEN "true" ELSE "false"]
Err(msg) == [k |-> "error", a |-> msg]
\* a task descriptor, by the number of its proc
Task(p) == [k |-> "task", a |-> "", p |-> p]
CHANNEL_END == [k |-> "CHANNEL_END", a |-> ""]
TASK_CANCEL == [k |-> "TASK_CANCEL", a |-> ""]
\* the object { [key]: v }
Obj(key, v) == [k |-> "obj", a |-> key, v |-> v]
\* an object by its properties, a function from the keys to the values
Object(props) == [k |-> "object", a |-> "", props |-> props]
\* an array by its elements
Array(items) == [k |-> "array", a |-> "", items |-> items]
\* the property name of the index i of an array
Index(i) == CASE i = 0 -> "0" [] i = 1 -> "1" [] i = 2 -> "2" [] i = 3 -> "3"
\* array.from({ ...props, length: n })
arrayFrom(props, n) ==
  Array([i \in 1..n |-> IF Index(i - 1) \in DOMAIN props THEN props[Index(i - 1)]
                          ELSE Undef])
\* a single-consumer channel, by its place in chans
Chan(c) == [k |-> "chan", a |-> "", c |-> c]
\* a number, by its digits
Num(digits) == [k |-> "num", a |-> digits]

----------------------------------------------------------------------------
(* Exceptions *)

NoExc == [k |-> "none", a |-> ""]

Threw(s) == s.exc.k # "none"

Throw(s, e) == [s EXCEPT !.exc = e]

\* try { ... } finally { F }: F runs on the state the body left, also when
\* the body threw; an exception of the body is rethrown unless F throws.
AfterFinally(body, fin) == IF Threw(fin) THEN fin ELSE [fin EXCEPT !.exc = body.exc]

Calm(s) == [s EXCEPT !.exc = NoExc]

\* utils.js remove(array, item): the first occurrence, by identity
RECURSIVE remove(_, _)
remove(array, rid) ==
  IF array = <<>> THEN <<>>
  ELSE IF Head(array).rid = rid THEN Tail(array)
       ELSE <<Head(array)>> \o remove(Tail(array), rid)

----------------------------------------------------------------------------
(* Scheduled tasks of the scheduler's own test bench: a job is a script,   *)
(* a sequence of the calls a task can make into the scheduler.             *)

OpThrow == [o |-> "throw"]
OpAsap(script) == [o |-> "asap", script |-> script]
\* try { suspend(); body } finally { flush() }, the way proc.js uses them
OpPair(script) == [o |-> "pair", script |-> script]

Scripts0 == {<<>>, <<OpThrow>>}
Ops1 == {OpAsap(b) : b \in Scripts0} \cup {OpPair(b) : b \in Scripts0}
Scripts1 == Scripts0 \cup {<<o>> : o \in Ops1}
                     \cup {<<OpAsap(<<>>), o>> : o \in Ops1}
Ops2 == {OpAsap(b) : b \in Scripts1} \cup {OpPair(b) : b \in Scripts1}
Scripts2 == Scripts1 \cup {<<o>> : o \in Ops2}

Job(id, script) == [k |-> "job", id |-> id, script |-> script]

----------------------------------------------------------------------------
(* Callbacks of the channels' test bench: a callback is a script of the    *)
(* calls it makes back into the channel when it is invoked.                *)

CbPut(type) == [o |-> "put", a |-> type]
CbTake(script) == [o |-> "take", script |-> script]
CbFlush == [o |-> "flush"]
CbClose == [o |-> "close"]
\* call the cancel of the taker with this registration number, if it has one
CbCancel(rid) == [o |-> "cancel", rid |-> rid]

\* calls of a callback or of the host into an event channel: the emitter
\* with an action or with END, and close
EcEmit(type) == [o |-> "emit", a |-> type]
EcEmitEnd == [o |-> "emitEnd"]
EcClose == [o |-> "ecClose"]

\* what subscribe does with the emitter before it returns
SubscribeScripts == {<<>>, <<EcEmit("x")>>, <<EcEmitEnd>>, <<EcEmit("x"), EcEmitEnd>>,
                     <<EcEmitEnd, EcEmit("x")>>, <<EcEmitEnd, EcEmitEnd>>}
\* what the host's unsubscribe function does
UnsubscribeScripts == {<<>>, <<EcEmitEnd>>, <<EcEmit("x")>>}
\* what a callback given to take or flush of an event channel does
EvtCbScripts == {<<>>, <<CbTake(<<>>)>>, <<EcClose>>, <<EcEmitEnd>>, <<EcEmit("y")>>}

CbOps0 == {CbPut("x"), CbTake(<<>>), CbFlush, CbClose, CbCancel(1), CbCancel(2)}
CbScripts1 == {<<>>} \cup {<<o>> : o \in CbOps0}
CbScripts2 == CbScripts1 \cup {<<CbTake(<<o>>)>> : o \in CbOps0}
                         \cup {<<CbPut("x"), CbPut("y")>>, <<CbTake(<<>>), CbTake(<<>>)>>,
                               <<CbTake(<<>>), CbPut("x")>>, <<CbClose, CbTake(<<>>)>>}

\* a callback with its registration number
ScriptCb(rid, script) == [k |-> "script", rid |-> rid, script |-> script]

\* The same for the multicast channel; a take names its pattern.
McPut(type) == [o |-> "put", a |-> type]
McTake(pat, script) == [o |-> "take", pat |-> pat, script |-> script]
McClose == [o |-> "close"]
McCancel(rid) == [o |-> "cancel", rid |-> rid]

Wildcard == {"*"}
Pats == {Wildcard, {"x"}, {"y"}}

McOps0 == {McPut("x"), McPut("y"), McTake(Wildcard, <<>>), McTake({"x"}, <<>>), McClose,
           McCancel(1), McCancel(2), McCancel(3)}
McScripts1 == {<<>>} \cup {<<o>> : o \in McOps0}

McCb(rid, pat, script) == [k |-> "mscript", rid |-> rid, pat |-> pat, script |-> script]

----------------------------------------------------------------------------
(* matcher.js is not among the sources: a pattern is as the specification  *)
(* describes it (4.C), the wildcard or a list of types, and accepts an     *)
(* input whose type it lists.                                              *)
Matches(pat, input) == "*" \in pat \/ input.a \in pat

----------------------------------------------------------------------------
(* buffers.js is not among the sources: the buffers are as the             *)
(* specification describes them (4.B).                                      *)

BufKinds == {"expanding", "none", "fixed", "dropping", "sliding"}

BufIsEmpty(ch) == ch.buffer = <<>>

\* buffer.put(input) on channel c
BufPut(s, c, input) ==
  LET ch == s.chans[c]
      full == Len(ch.buffer) >= BufLimit
  IN CASE ch.kind = "expanding" -> [s EXCEPT !.chans[c].buffer = Append(@, input)]
       [] ch.kind = "none" -> s
       [] ch.kind = "fixed" ->
            IF full THEN Throw(s, Err("Channel's Buffer overflow!"))
            ELSE [s EXCEPT !.chans[c].buffer = Append(@, input)]
       [] ch.kind = "dropping" ->
            IF full THEN s ELSE [s EXCEPT !.chans[c].buffer = Append(@, input)]
       [] ch.kind = "sliding" ->
            IF full THEN [s EXCEPT !.chans[c].buffer = Append(Tail(@), input)]
            ELSE [s EXCEPT !.chans[c].buffer = Append(@, input)]

----------------------------------------------------------------------------
(* scheduler.js *)

RECURSIVE exec(_, _), flush(_), FlushLoop(_), asap(_, _), RunTask(_, _),
          RunScript(_, _)
RECURSIVE chan_put(_, _, _), chan_take(_, _, _), chan_flush(_, _, _),
          chan_close(_, _), CloseLoop(_, _), InvokeCb(_, _, _),
          RunCbScript(_, _, _)
RECURSIVE ec_close(_), emitter(_, _), unsubscribe(_), hostUnsubscribe(_)
RECURSIVE PutLoopLive(_, _, _, _, _)
RECURSIVE mc_put(_, _), mc_take(_, _), mc_close(_), mc_cancel(_, _),
          PutLoop(_, _, _, _, _), McCloseLoop(_, _, _), RunMcScript(_, _)
\* Call(s, <<"f", x, y>>) is the call f(s, x, y), for the calls of proc.js and
\* the calls back into it
RECURSIVE Call(_, _)

suspend(s) == [s EXCEPT !.semaphore = @ + 1]

release(s) ==
  LET n == s.semaphore - 1 IN
  [s EXCEPT !.semaphore = n,
            \* observation: the semaphore reached 0 under a running task
            !.sobs.lowSem = @ \/ (n <= 0 /\ s.running > 0),
            \* observation: the semaphore went below 0
            !.sobs.negative = @ \/ n < 0]

\* observation, in sobs.calls: a call of asap, or a suspend/flush pair, found
\* the semaphore at before.semaphore and leaves it at after.semaphore; threw
\* tells that the call ends with an exception, or failed, that the child a
\* fork effect created has thrown
Leaves(before, after, op, failed) ==
  [after EXCEPT !.sobs.calls = @ \cup {[op |-> op, before |-> before.semaphore,
                                        after |-> after.semaphore,
                                        threw |-> failed \/ Threw(after)]}]

\* exec without the lock around the task
execUnlocked(s, task) ==
  LET s1 == [s EXCEPT !.running = @ + 1,
                      !.sobs.nested = @ \/ (s.running > 0),
                      !.sobs.executed = Append(@, task.id)]
      s2 == RunTask(s1, task)
  IN [s2 EXCEPT !.running = @ - 1]

\* exec that releases the lock only when the task returns
execNoFinally(s, task) ==
  LET s1 == suspend(s)
      s2 == [s1 EXCEPT !.running = @ + 1,
                       !.sobs.nested = @ \/ (s1.running > 0),
                       !.sobs.executed = Append(@, task.id)]
      s3 == RunTask(s2, task)
      s4 == [s3 EXCEPT !.running = @ - 1]
  IN IF Threw(s4) THEN s4 ELSE release(s4)

exec(s, task) ==
  LET s1 == suspend(s)
      \* observation: task() starts; another task is on the stack iff running > 0
      s2 == [s1 EXCEPT !.running = @ + 1,
                       !.sobs.nested = @ \/ (s1.running > 0),
                       !.sobs.executed = Append(@, task.id)]
      s3 == RunTask(s2, task)
      s4 == [s3 EXCEPT !.running = @ - 1]
  IN AfterFinally(s4, release(Calm(s4)))

FlushLoop(s) ==
  IF Threw(s) THEN s
  ELSE IF s.semaphore = 0 /\ s.queue # <<>>
       THEN FlushLoop(exec([s EXCEPT !.queue = Tail(@)], Head(s.queue)))
       ELSE s

flush(s) == FlushLoop(release(s))

asap(s, task) ==
  LET s1 == [s EXCEPT !.queue = Append(@, task)] IN
  Leaves(s, IF s1.semaphore = 0 THEN flush(suspend(s1)) ELSE s1, "asap", FALSE)

----------------------------------------------------------------------------
(* What a scheduled task does when it runs *)

NewJob(s, script) == Job(s.sobs.nextJob, script)

RunScript(s, script) ==
  IF Threw(s) \/ script = <<>> THEN s
  ELSE LET op == Head(script) IN
       CASE op.o = "throw" -> Throw(s, Err("job error"))
         [] op.o = "asap" ->
              RunScript(asap([s EXCEPT !.sobs.nextJob = @ + 1], NewJob(s, op.script)),
                        Tail(script))
         [] op.o = "pair" ->
              LET body == RunScript(suspend(s), op.script)
              IN RunScript(Leaves(s, AfterFinally(body, flush(Calm(body))), "pair", FALSE),
                           Tail(script))

RunTask(s, task) ==
  CASE task.k = "job" -> RunScript(s, task.script)
    \* stdChannel: () => put(input)
    [] task.k = "stdput" ->
         LET s1 == Call([s EXCEPT !.issuer = task.origin, !.by = task.by, !.mw = task.mw],
                        <<"mc_put", task.input>>)
         IN [s1 EXCEPT !.issuer = s.issuer, !.by = s.by, !.mw = s.mw]
    [] task.k = "puteff" -> Call(s, <<"PutTask", task>>)

----------------------------------------------------------------------------
(* channel.js: channel(buffer) *)

Channel(kind) == [closed |-> FALSE, takers |-> <<>>, buffer |-> <<>>, kind |-> kind]

checkForbiddenStates(s, c) ==
  LET ch == s.chans[c] IN
  IF ch.closed /\ Len(ch.takers) > 0
  THEN [Throw(s, Err("Cannot have a closed channel with pending takers"))
          EXCEPT !.cobs.forbidden = TRUE]
  ELSE IF Len(ch.takers) > 0 /\ ~BufIsEmpty(ch)
  THEN [Throw(s, Err("Cannot have pending takers with non empty buffer"))
          EXCEPT !.cobs.forbidden = TRUE]
  ELSE s

\* put that removes the taker after it has invoked it
chan_putThenRemove(s, c, input) ==
  LET s1 == checkForbiddenStates(s, c)
      ch == s1.chans[c]
  IN IF Threw(s1) THEN s1
     ELSE IF ch.closed THEN s1
     ELSE IF Len(ch.takers) = 0 THEN BufPut(s1, c, input)
     ELSE LET cb == ch.takers[1]
              s2 == InvokeCb(s1, cb, input)
          IN [s2 EXCEPT !.chans[c].takers = remove(@, cb.rid)]

chan_put(s, c, input) ==
  LET s1 == checkForbiddenStates(s, c)
      ch == s1.chans[c]
  IN IF Threw(s1) THEN s1
     ELSE IF ch.closed THEN s1
     ELSE IF Len(ch.takers) = 0 THEN BufPut(s1, c, input)
     ELSE LET cb == ch.takers[1]
          IN InvokeCb([s1 EXCEPT !.chans[c].takers = Tail(@)], cb, input)

\* take that registers the taker whatever the buffer holds
chan_takeEager(s, c, cb) ==
  LET s1 == checkForbiddenStates(s, c)
      ch == s1.chans[c]
  IN IF Threw(s1) THEN s1
     ELSE IF ch.closed /\ BufIsEmpty(ch) THEN InvokeCb(s1, cb, END)
     ELSE [s1 EXCEPT !.chans[c].takers = Append(@, cb)]

\* take that delivers the newest buffered value
chan_takeNewest(s, c, cb) ==
  LET s1 == checkForbiddenStates(s, c)
      ch == s1.chans[c]
  IN IF Threw(s1) THEN s1
     ELSE IF ch.closed /\ BufIsEmpty(ch) THEN InvokeCb(s1, cb, END)
     ELSE IF ~BufIsEmpty(ch)
     THEN InvokeCb([s1 EXCEPT !.chans[c].buffer = SubSeq(@, 1, Len(@) - 1)], cb,
                   ch.buffer[Len(ch.buffer)])
     ELSE [s1 EXCEPT !.chans[c].takers = Append(@, cb)]

chan_take(s, c, cb) ==
  LET s1 == checkForbiddenStates(s, c)
      ch == s1.chans[c]
  IN IF Threw(s1) THEN s1
     \* observation, in cobs.ended: the callbacks take called with END
     ELSE IF ch.closed /\ BufIsEmpty(ch)
     THEN InvokeCb([s1 EXCEPT !.cobs.ended = Append(@, cb.rid)], cb, END)
     ELSE IF ~BufIsEmpty(ch)
     THEN InvokeCb([s1 EXCEPT !.chans[c].buffer = Tail(@)], cb, Head(ch.buffer))
     \* takers.push(cb); cb.cancel = () => remove(takers, cb)
     ELSE [s1 EXCEPT !.chans[c].takers = Append(@, cb)]

\* cb.cancel of a taker of channel c
\* observation, in cobs.cancels: the call, whether it removed a taker, and
\* the number of deliveries made before it
chan_cancel(s, c, rid) ==
  LET held == s.chans[c].takers
  IN [s EXCEPT !.chans[c].takers = remove(@, rid),
               !.cobs.cancels =
                  Append(@, [rid |-> rid, at |-> Len(s.cobs.delivered),
                             removed |-> \E k \in 1..Len(held) : held[k].rid = rid])]

chan_flush(s, c, cb) ==
  LET s1 == checkForbiddenStates(s, c)
      ch == s1.chans[c]
  IN IF Threw(s1) THEN s1
     ELSE IF ch.closed /\ BufIsEmpty(ch) THEN InvokeCb(s1, cb, END)
     ELSE InvokeCb([s1 EXCEPT !.chans[c].buffer = <<>>], cb, List(ch.buffer))

\* for (i = 0; i < arr.length; i++) arr[i](END)
CloseLoop(s, arr) ==
  IF Threw(s) \/ arr = <<>> THEN s
  ELSE CloseLoop(InvokeCb(s, Head(arr), END), Tail(arr))

\* close that leaves the takers in the queue
chan_closeKeepsTakers(s, c) ==
  LET s1 == checkForbiddenStates(s, c)
      ch == s1.chans[c]
  IN IF Threw(s1) THEN s1
     ELSE IF ch.closed THEN s1
     ELSE CloseLoop([s1 EXCEPT !.chans[c].closed = TRUE], ch.takers)

chan_close(s, c) ==
  LET s1 == checkForbiddenStates(s, c)
      ch == s1.chans[c]
  IN IF Threw(s1) THEN s1
     ELSE IF ch.closed THEN s1
     ELSE CloseLoop([s1 EXCEPT !.chans[c].closed = TRUE, !.chans[c].takers = <<>>],
                    ch.takers)

----------------------------------------------------------------------------
(* channel.js: multicastChannel().  currentTakers and nextTakers are       *)
(* references to arrays: heap holds the arrays, and the two variables      *)
(* (and the local takers of a running put or close) hold indices into it.  *)

Multicast == [closed |-> FALSE, heap |-> << <<>> >>, currentTakers |-> 1,
              nextTakers |-> 1, onceDone |-> {}]

NextTakers(m) == m.heap[m.nextTakers]

\* the scheduled task that is running (0: none)
Cur(s) == IF s.running > 0 THEN s.sobs.executed[Len(s.sobs.executed)] ELSE 0

\* the delivery that is running where a put is issued (0: none)
Origin(s) == IF s.active # <<>> THEN s.active[Len(s.active)] ELSE s.issuer

\* ensureCanMutateNextTakers that never copies
ensureNoCopy(s) == s

ensureCanMutateNextTakers(s) ==
  IF s.mc.nextTakers # s.mc.currentTakers THEN s
  ELSE [s EXCEPT !.mc.heap = Append(@, s.mc.heap[s.mc.currentTakers]),
                 !.mc.nextTakers = Len(s.mc.heap) + 1]

\* cb.cancel = once(() => { ensureCanMutateNextTakers(); remove(nextTakers, cb) })
\* observation, in mobs.cancels: the call, whether it removed a taker, the
\* calls of put that are iterating and the number of calls of put so far
mc_cancel(s, rid) ==
  IF rid \in s.mc.onceDone THEN s
  ELSE LET s1 == ensureCanMutateNextTakers([s EXCEPT !.mc.onceDone = @ \cup {rid}])
           held == NextTakers(s1.mc)
       IN [s1 EXCEPT !.mc.heap[s1.mc.nextTakers] = remove(@, rid),
                     !.mobs.cancels =
                        Append(@, [rid |-> rid, during |-> s.active,
                                   puts |-> Len(s.mobs.puts),
                                   removed |-> \E k \in 1..Len(held) : held[k].rid = rid,
                                   own |-> FALSE])]

\* for (let i = 0; i < takers.length; i++) takers[i](END); i counts from 1
McCloseLoop(s, takers, i) ==
  IF Threw(s) \/ i > Len(s.mc.heap[takers]) THEN s
  ELSE McCloseLoop(InvokeCb(s, s.mc.heap[takers][i], END), takers, i + 1)

mc_close(s) ==
  LET s1 == [s EXCEPT !.mc.closed = TRUE, !.mc.currentTakers = s.mc.nextTakers]
      s2 == McCloseLoop(s1, s1.mc.currentTakers, 1)
  IN IF Threw(s2) THEN s2
     ELSE [s2 EXCEPT !.mc.heap = Append(@, <<>>), !.mc.nextTakers = Len(s2.mc.heap) + 1]

\* the loop of put that passes over a taker whose cancel has already run
PutLoopLive(s, pid, takers, i, input) ==
  IF Threw(s) \/ i > Len(s.mc.heap[takers]) THEN s
  ELSE LET taker == s.mc.heap[takers][i] IN
       IF Matches(taker.pat, input) /\ taker.rid \notin s.mc.onceDone
       THEN LET s0 == Call(s, <<"mc_cancel", taker.rid>>)
                s1 == [s0 EXCEPT !.mobs.cancels[Len(s0.mobs.cancels)].own = TRUE]
                s2 == [s1 EXCEPT !.mobs.puts[pid].invoked = Append(@, taker.rid)]
            IN PutLoopLive(InvokeCb(s2, taker, input), pid, takers, i + 1, input)
       ELSE PutLoopLive(s, pid, takers, i + 1, input)

\* the loop of put over the array takers; pid numbers the call of put for
\* the observations
PutLoop(s, pid, takers, i, input) ==
  IF Threw(s) \/ i > Len(s.mc.heap[takers]) THEN s
  ELSE LET taker == s.mc.heap[takers][i] IN
       IF Matches(taker.pat, input)
       THEN LET s0 == Call(s, <<"mc_cancel", taker.rid>>)
                \* observation: this removal is the one put makes itself
                s1 == IF Len(s0.mobs.cancels) = Len(s.mobs.cancels) THEN s0
                      ELSE [s0 EXCEPT !.mobs.cancels[Len(s0.mobs.cancels)].own = TRUE]
                s2 == [s1 EXCEPT !.mobs.puts[pid].invoked = Append(@, taker.rid),
                                 \* observation: the put this one was issued
                                 \* under is still delivering
                                 !.mobs.early = @ \/ \E n \in 1..Len(s.active) :
                                     s.active[n] = s.mobs.puts[pid].origin]
            IN PutLoop(InvokeCb(s2, taker, input), pid, takers, i + 1, input)
       ELSE PutLoop(s, pid, takers, i + 1, input)

\* observation, in pobs.trace: put is entered with the action of a call of
\* the middleware
Entered(s, input) ==
  IF s.mw = 0 THEN s
  ELSE [s EXCEPT !.pobs.trace = Append(@, [ev |-> "put", n |-> s.mw, v |-> input])]

mc_put(s, input) ==
  IF s.mc.closed THEN Entered(s, input)
  ELSE IF isEnd(input) THEN mc_close(Entered(s, input))
  ELSE LET pid == Len(s.mobs.puts) + 1
           s1 == [Entered(s, input) EXCEPT !.mc.currentTakers = s.mc.nextTakers,
                           \* observation: the takers registered as put is entered
                           !.mobs.puts = Append(@, [input |-> input,
                                                    entry |-> NextTakers(s.mc),
                                                    invoked |-> <<>>,
                                                    origin |-> Origin(s),
                                                    by |-> s.by,
                                                    task |-> Cur(s)]),
                           !.active = Append(@, pid)]
           s2 == PutLoop(s1, pid, s1.mc.currentTakers, 1, input)
       IN [s2 EXCEPT !.active = s.active]

\* take without the test of closed
mc_takeOpen(s, cb) ==
  LET s1 == ensureCanMutateNextTakers(s)
  IN [s1 EXCEPT !.mc.heap[s1.mc.nextTakers] = Append(@, cb)]

\* cb is the callback with its matcher (cb[MATCH] = matcher)
\* observation, in mobs.ended: the callbacks take called with END
mc_take(s, cb) ==
  IF s.mc.closed THEN InvokeCb([s EXCEPT !.mobs.ended = Append(@, cb.rid)], cb, END)
  ELSE LET s1 == ensureCanMutateNextTakers(s)
       \* cb.cancel = once(...): a new once each time cb is registered
       IN [s1 EXCEPT !.mc.heap[s1.mc.nextTakers] = Append(@, cb),
                     !.mc.onceDone = @ \ {cb.rid}]

\* Between two external calls no put or close is running, and only the
\* arrays currentTakers and nextTakers refer to can be reached.
Collect(m) ==
  IF m.nextTakers = m.currentTakers
  THEN [m EXCEPT !.heap = <<m.heap[m.currentTakers]>>, !.currentTakers = 1,
                 !.nextTakers = 1]
  ELSE [m EXCEPT !.heap = <<m.heap[m.currentTakers], m.heap[m.nextTakers]>>,
                 !.currentTakers = 1, !.nextTakers = 2]

----------------------------------------------------------------------------
(* Callbacks *)

NewMcCb(s, pat, script) == McCb(s.mobs.nextCb, pat, script)

\* the body of a test-bench callback of the multicast channel
RunMcScript(s, script) ==
  IF Threw(s) \/ script = <<>> THEN s
  ELSE LET op == Head(script)
           s1 == CASE op.o = "put" -> Call(s, <<"mc_put", Act(op.a)>>)
                   [] op.o = "take" ->
                        Call([s EXCEPT !.mobs.nextCb = @ + 1],
                             <<"mc_take", NewMcCb(s, op.pat, op.script)>>)
                   [] op.o = "close" -> Call(s, <<"mc_close">>)
                   [] op.o = "cancel" -> Call(s, <<"mc_cancel", op.rid>>)
       IN RunMcScript(s1, Tail(script))

NewCb(s, script) == ScriptCb(s.cobs.nextCb, script)

\* the body of a test-bench callback, called on channel c
RunCbScript(s, c, script) ==
  IF Threw(s) \/ script = <<>> THEN s
  ELSE LET op == Head(script)
           fresh == [s EXCEPT !.cobs.nextCb = @ + 1]
           s1 == CASE op.o = "put" -> Call(s, <<"chan_put", c, Act(op.a)>>)
                   [] op.o = "take" -> Call(fresh, <<"chan_take", c, NewCb(s, op.script)>>)
                   [] op.o = "flush" -> Call(fresh, <<"chan_flush", c, NewCb(s, <<>>)>>)
                   [] op.o = "close" -> Call(s, <<"chan_close", c>>)
                   [] op.o = "cancel" -> Call(s, <<"chan_cancel", c, op.rid>>)
                   [] op.o = "emit" -> Call(s, <<"emitter", Act(op.a)>>)
                   [] op.o = "emitEnd" -> Call(s, <<"emitter", END>>)
                   [] op.o = "ecClose" -> Call(s, <<"ec_close">>)
       IN RunCbScript(s1, c, Tail(script))

InvokeCb(s, cb, input) ==
  CASE cb.k = "script" ->
         Call([s EXCEPT !.cobs.delivered = Append(@, <<cb.rid, input>>)],
              <<"RunCbScript", 1, cb.script>>)
    \* a test-bench callback of the multicast channel acts on its first call
    [] cb.k = "mscript" ->
         LET s1 == [s EXCEPT !.mobs.fired = Append(@, <<cb.rid, input>>)]
         IN IF \E i \in 1..Len(s.mobs.fired) : s.mobs.fired[i][1] = cb.rid
            THEN s1
            ELSE Call(s1, <<"RunMcScript", cb.script>>)
    [] cb.k = "takeCb" -> Call(s, <<"takeCb", cb, input>>)
    [] cb.k = "taker" -> Call(s, <<"taker", cb, input>>)

----------------------------------------------------------------------------
(* channel.js: eventChannel(subscribe, buffer).  chan is chans[1]; the     *)
(* variable unsubscribe is "undefined", "func" (the function subscribe     *)
(* returned) or "once" (once(unsubscribe), with its flag called).  utils.js *)
(* is not among the sources: once(fn) is as the specification describes    *)
(* it, a function that calls fn the first time it is called.               *)

NoEvt == [made |-> FALSE, closed |-> FALSE, unsubscribe |-> "undefined", called |-> FALSE,
          script |-> <<>>,
          \* observations: the calls of the host's unsubscribe function, and
          \* whether END was emitted or close was called
          unsubs |-> 0, ended |-> FALSE]

\* the host's unsubscribe function
hostUnsubscribe(s) ==
  Call([s EXCEPT !.evt.unsubs = @ + 1], <<"RunCbScript", 1, s.evt.script>>)

\* unsubscribe()
unsubscribe(s) ==
  CASE s.evt.unsubscribe = "func" -> Call(s, <<"hostUnsubscribe">>)
    [] s.evt.unsubscribe = "once" ->
         IF s.evt.called THEN s
         ELSE Call([s EXCEPT !.evt.called = TRUE], <<"hostUnsubscribe">>)
    [] OTHER -> Throw(s, Err("TypeError: unsubscribe is not a function"))

\* close that unsubscribes only
ec_closeOuter(s) ==
  LET s0 == [s EXCEPT !.evt.ended = TRUE]
  IN IF s0.evt.unsubscribe # "undefined" THEN Call(s0, <<"unsubscribe">>) ELSE s0

\* eventChannel: close
ec_close(s) ==
  LET s0 == [s EXCEPT !.evt.ended = TRUE]
      s1 == IF s0.evt.unsubscribe # "undefined" THEN Call(s0, <<"unsubscribe">>) ELSE s0
  IN IF Threw(s1) THEN s1 ELSE Call(s1, <<"chan_close", 1>>)

\* eventChannel: the function given to subscribe
emitter(s, input) ==
  IF isEnd(input)
  THEN LET s1 == Call(s, <<"ec_close">>)
       IN IF Threw(s1) THEN s1 ELSE [s1 EXCEPT !.evt.closed = TRUE]
  ELSE Call(s, <<"chan_put", 1, input>>)

\* eventChannel(subscribe, buffer), with a buffer of kind kind and with
\* subscribe a function that runs script and returns returned
eventChannel(s, kind, script, returned) ==
  LET s0 == [s EXCEPT !.chans = <<Channel(kind)>>,
                      !.evt = [NoEvt EXCEPT !.script = returned.script]]
      s1 == Call(s0, <<"RunCbScript", 1, script>>)
      s2 == [s1 EXCEPT !.evt.unsubscribe = returned.k]
      s3 == [s2 EXCEPT !.evt.unsubscribe = "once"]
      s4 == IF s3.evt.closed THEN Call(s3, <<"unsubscribe">>) ELSE s3
  IN IF Threw(s1) THEN s1
     ELSE IF returned.k # "func"
     THEN Throw(s2, Err("in eventChannel: subscribe should return a function to unsubscribe"))
     ELSE IF Threw(s4) THEN s4
     ELSE [s4 EXCEPT !.evt.made = TRUE]

----------------------------------------------------------------------------
(* Sagas.  A generator function is a sequence of instructions; the yield  *)
(* instructions carry the effect they yield, the others run between two   *)
(* yields.  The iterator of a proc is its program counter pc (0 before    *)
(* the first next), the value last sent in, and the completion a finally  *)
(* block has to resume (pend).                                             *)

ITake(pat) == [op |-> "take", pat |-> pat, maybe |-> FALSE, chan |-> FALSE]
\* take(chan), chan the channel the saga keeps in its variable chan
ITakeChan == [op |-> "take", pat |-> {"*"}, maybe |-> FALSE, chan |-> TRUE]
\* actionChannel(pat), with the default buffer
IActionChannel(pat) == [op |-> "actionChannel", pat |-> pat]
\* chan = the value the previous yield returned
IStore == [op |-> "store"]
IPut(type) == [op |-> "put", a |-> type]
IFork(saga) == [op |-> "fork", saga |-> saga, detached |-> FALSE]
ISpawn(saga) == [op |-> "fork", saga |-> saga, detached |-> TRUE]
\* cps(fn): fn keeps the callback for the host to call; hook: fn sets cpsCb.cancel
ICps(hook) == [op |-> "cps", hook |-> hook]
\* call(store.dispatch, {type})
ICallDispatch(type) == [op |-> "call", a |-> type]
ICancelled == [op |-> "cancelled"]
\* join(t), t the value the previous yield returned
IJoin == [op |-> "join", first |-> FALSE]
\* join(t), t the task of the first root saga, which the saga was run with
IJoinFirst == [op |-> "join", first |-> TRUE]
\* cancel(): SELF_CANCELLATION
ICancelSelf == [op |-> "cancel"]
ILog(ev) == [op |-> "log", ev |-> ev]
\* getContext(prop)
IGetContext(prop) == [op |-> "getContext", prop |-> prop]
\* setContext({ [prop]: v })
ISetContext(prop, v) == [op |-> "setContext", prop |-> prop, v |-> v]
IThrow == [op |-> "throw"]
\* return v
IReturn(v) == [op |-> "return", v |-> v]
IJmp(to) == [op |-> "jmp", to |-> to]
\* if (!last) goto to
IIfNot(to) == [op |-> "ifnot", to |-> to]
IEndFinally == [op |-> "endfinally"]
\* race({ key: effect, ... }), the keys in the order of Object.keys
IRace(kids) == [op |-> "race", kids |-> kids]
Kid(key, ins) == [key |-> key, ins |-> ins]
\* all({ key: effect, ... }), or all([effect, ...]) when isArray
IAll(kids, isArray) == [op |-> "all", kids |-> kids, isArray |-> isArray]

Prog(saga) ==
  CASE saga = "onA" -> <<ITake({"A"}), ILog("A-start"), IPut("B"), ILog("A-end")>>
    [] saga = "onB" -> <<ITake({"B"}), ILog("B-start"), ILog("B-end")>>
    [] saga = "relayA" -> <<ITake({"A"}), ICallDispatch("B"), ILog("relayed")>>
    [] saga = "watcher" -> <<ITake({"A"}), IJmp(1)>>
    [] saga = "thrower" -> <<IThrow>>
    [] saga = "lateThrower" -> <<ITake({"B"}), IThrow>>
    \* try { yield cps(fn) } finally { if (yield cancelled()) yield put(C) }
    [] saga = "guarded" -> <<ICps(TRUE), ICancelled, IIfNot(5), IPut("C"), IEndFinally>>
    \* try { yield take(X) } finally { yield fork(thrower) }
    [] saga = "forkInCleanup" -> <<ITake({"X"}), IFork("thrower"), IEndFinally>>
    [] saga = "parent" -> <<IFork("watcher"), IFork("thrower"), ITake({"X"})>>
    [] saga = "parentLate" -> <<IFork("watcher"), IFork("lateThrower")>>
    [] saga = "grand" -> <<IFork("parent"), ITake({"X"})>>
    \* try { yield take(X) } finally { throw }
    [] saga = "cleanupThrows" -> <<ITake({"X"}), IThrow, IEndFinally>>
    [] saga = "selfCancel" -> <<ITake({"A"}), ICancelSelf, ILog("after-cancel")>>
    \* t = yield fork(selfCancel); try { yield join(t) } finally { yield take(X) }
    [] saga = "joiner" -> <<IFork("selfCancel"), IJoin, ITake({"X"}), IEndFinally>>
    \* yield spawn(thrower); return 42
    [] saga = "spawnThrower" -> <<ISpawn("thrower"), IReturn(Num("42"))>>
    [] saga = "spawnLate" -> <<ISpawn("lateThrower"), ITake({"X"}), IReturn(Num("42"))>>
    [] saga = "forkWait" ->
         <<IFork("onB"), ITake({"A"}), ILog("main-done"), IReturn(Num("42"))>>
    [] saga = "putB" -> <<IPut("B")>>
    [] saga = "putLog" -> <<IPut("B"), ILog("put-done")>>
    \* yield setContext({ user: 1 }); yield fork(ctxKid); yield fork(ctxReader);
    \* yield take(A); yield getContext(user); yield setContext({ user: 2 });
    \* yield getContext(lang); yield take(A); yield getContext(user)
    [] saga = "ctxParent" ->
         <<ISetContext("user", Num("1")), IFork("ctxKid"), IFork("ctxReader"),
           ITake({"A"}), IGetContext("user"), ISetContext("user", Num("2")),
           IGetContext("lang"), ITake({"A"}), IGetContext("user")>>
    \* yield getContext(user); yield take(B); yield setContext({ user: 7 });
    \* yield setContext({ lang: 8 }); yield getContext(user); yield take(B);
    \* yield getContext(user); yield getContext(lang)
    [] saga = "ctxKid" ->
         <<IGetContext("user"), ITake({"B"}), ISetContext("user", Num("7")),
           ISetContext("lang", Num("8")), IGetContext("user"), ITake({"B"}),
           IGetContext("user"), IGetContext("lang")>>
    \* while (true) { yield take(X); yield getContext(user); yield getContext(lang) }
    [] saga = "ctxReader" ->
         <<ITake({"X"}), IGetContext("user"), IGetContext("lang"), IJmp(1)>>
    \* yield setContext({ lang: 3 }); yield spawn(ctxKid); yield take(A);
    \* yield getContext(user); yield getContext(lang)
    [] saga = "ctxSpawner" ->
         <<ISetContext("lang", Num("3")), ISpawn("ctxKid"), ITake({"A"}),
           IGetContext("user"), IGetContext("lang")>>
    \* yield setContext({ lang: 5 }); yield fork(ctxParent); yield take(X);
    \* yield getContext(user); yield getContext(lang)
    [] saga = "ctxGrand" ->
         <<ISetContext("lang", Num("5")), IFork("ctxParent"), ITake({"X"}),
           IGetContext("user"), IGetContext("lang")>>
    \* yield take(A); yield fork(putLog); yield fork(thrower)
    [] saga = "putThenFail" -> <<ITake({"A"}), IFork("putLog"), IFork("thrower")>>
    \* yield take(A); yield fork(putLog); throw
    [] saga = "putThenThrow" -> <<ITake({"A"}), IFork("putLog"), IThrow>>
    \* yield take(A); yield fork(putLog); yield cancel()
    [] saga = "putThenCancel" -> <<ITake({"A"}), IFork("putLog"), ICancelSelf>>
    [] saga = "forkThenTake" -> <<IFork("putB"), ITake({"B"}), ILog("got-B")>>
    [] saga = "nest" -> <<IFork("forkThenTake"), ITake({"X"})>>
    \* two rounds of: while (true) { yield take([A, B]); yield fork(putB) }
    [] saga = "takeFork" ->
         <<ITake({"A", "B"}), IFork("putB"), ITake({"A", "B"}), ILog("got-B")>>
    \* try { yield take(X) } finally { yield fork(watcher) }
    [] saga = "forkInCleanupW" -> <<ITake({"X"}), IFork("watcher"), IEndFinally>>
    \* yield fork(lateThrower); try { yield take(X) } finally { yield fork(watcher) }
    [] saga = "abortInCleanup" ->
         <<IFork("lateThrower"), ITake({"X"}), IFork("watcher"), IEndFinally>>
    \* yield fork(lateThrower); try { yield take(X) } finally { yield take(A) }
    [] saga = "abortWaits" ->
         <<IFork("lateThrower"), ITake({"X"}), ITake({"A"}), IEndFinally>>
    [] saga = "branch" -> <<IFork("watcher"), ITake({"X"})>>
    [] saga = "tree" -> <<IFork("branch"), IFork("onB"), ITake({"X"})>>
    [] saga = "cancelNow" -> <<ICancelSelf, ILog("after-cancel")>>
    \* try { yield cancel(); ... } finally { ... }
    [] saga = "selfCancelTry" ->
         <<ICancelSelf, ILog("after-cancel"), ILog("cleanup"), IEndFinally>>
    [] saga = "joinCancelled" -> <<IFork("cancelNow"), IJoin, ILog("after-join")>>
    \* function* (t) { try { yield join(t) } finally { ... } }, run with the
    \* task of the first root saga
    [] saga = "joinFirst" ->
         <<IJoinFirst, ILog("after-join"), ILog("cleanup"), IEndFinally>>
    \* try { yield take(GO) } finally { if (yield cancelled()) yield put(CLEANUP) }
    [] saga = "finaliser" ->
         <<ITake({"GO"}), ICancelled, IIfNot(6), ILog("cancelled"), IPut("CLEANUP"),
           IEndFinally>>
    [] saga = "onCleanup" -> <<ITake({"CLEANUP"}), ILog("saw-CLEANUP")>>
    [] saga = "raceXY" ->
         <<IRace(<<Kid("x", ITake({"X"})), Kid("y", ITake({"Y"}))>>), ILog("raced")>>
    [] saga = "raceCps" ->
         <<IRace(<<Kid("c", ICps(TRUE)), Kid("x", ITake({"X"}))>>), ILog("raced")>>
    [] saga = "raceOne" -> <<IRace(<<Kid("a", ICps(TRUE))>>), ILog("raced")>>
    \* t = yield fork(selfCancel); yield race({ j: join(t), x: take(X) })
    [] saga = "raceJoin" ->
         <<IFork("selfCancel"), IRace(<<Kid("j", IJoin), Kid("x", ITake({"X"}))>>),
           ILog("raced")>>
    [] saga = "raceSync" ->
         <<IRace(<<Kid("b", ICancelled), Kid("x", ITake({"X"}))>>), ILog("raced")>>
    [] saga = "family" -> <<IFork("finaliser"), IFork("onCleanup"), ITake({"X"})>>
    \* const chan = yield actionChannel([T, U]); while (true) { yield take(chan) }
    [] saga = "acLoop" ->
         <<IActionChannel({"T", "U"}), IStore, ITakeChan, ILog("got"), IJmp(3)>>
    \* the matching actions arrive before the first take on the channel
    [] saga = "acLate" ->
         <<IActionChannel({"T", "U"}), IStore, IPut("T"), IPut("V"), IPut("U"), IPut("T"),
           ITakeChan, ITakeChan, ITakeChan, ITakeChan, ILog("got")>>
    [] saga = "acWait" ->
         <<IActionChannel({"T"}), IStore, ITake({"GO"}), ITakeChan, ILog("got"), ITakeChan>>
    [] saga = "putTU" -> <<IPut("T"), IPut("U")>>
    [] saga = "allXY" ->
         <<IAll(<<Kid("x", ITake({"X"})), Kid("y", ITake({"Y"}))>>, FALSE), ILog("all-done")>>
    [] saga = "allArr" ->
         <<IAll(<<Kid("0", ITake({"X"})), Kid("1", ITake({"Y"}))>>, TRUE), ILog("all-done")>>
    [] saga = "allEmptyObj" -> <<IAll(<<>>, FALSE), ILog("all-done")>>
    [] saga = "allEmptyArr" -> <<IAll(<<>>, TRUE), ILog("all-done")>>
    [] saga = "allCps" ->
         <<IAll(<<Kid("x", ITake({"X"})), Kid("c", ICps(TRUE))>>, FALSE), ILog("all-done")>>
    \* all([cancelled(), take(X)]): the first child completes while all is set up
    [] saga = "allSync" ->
         <<IAll(<<Kid("0", ICancelled), Kid("1", ITake({"X"}))>>, TRUE), ILog("all-done")>>
    \* t = yield fork(cancelNow); yield all({ j: join(t), c: cps(fn) })
    [] saga = "allJoinFirst" ->
         <<IFork("cancelNow"), IAll(<<Kid("j", IJoin), Kid("c", ICps(TRUE))>>, FALSE),
           ILog("all-done")>>
    \* t = yield fork(cancelNow); yield all({ x: take(X), j: join(t) })
    [] saga = "allJoinLast" ->
         <<IFork("cancelNow"), IAll(<<Kid("x", ITake({"X"})), Kid("j", IJoin)>>, FALSE),
           ILog("all-done")>>
    \* t = yield fork(thrower) would abort the parent: the failing task is spawned
    [] saga = "allErrFirst" ->
         <<ISpawn("thrower"), IAll(<<Kid("j", IJoin), Kid("x", ITake({"X"}))>>, FALSE),
           ILog("all-done")>>

NoTry == [from |-> 1, to |-> 0, fin |-> 0]

\* the try block of a saga (instructions from..to) and where its finally starts
Try(saga) ==
  CASE saga = "guarded" -> [from |-> 1, to |-> 1, fin |-> 2]
    [] saga = "forkInCleanup" -> [from |-> 1, to |-> 1, fin |-> 2]
    [] saga = "cleanupThrows" -> [from |-> 1, to |-> 1, fin |-> 2]
    [] saga = "joiner" -> [from |-> 2, to |-> 2, fin |-> 3]
    [] saga = "forkInCleanupW" -> [from |-> 1, to |-> 1, fin |-> 2]
    [] saga = "abortInCleanup" -> [from |-> 2, to |-> 2, fin |-> 3]
    [] saga = "abortWaits" -> [from |-> 2, to |-> 2, fin |-> 3]
    [] saga = "selfCancelTry" -> [from |-> 1, to |-> 2, fin |-> 3]
    [] saga = "joinFirst" -> [from |-> 1, to |-> 2, fin |-> 3]
    [] saga = "finaliser" -> [from |-> 1, to |-> 1, fin |-> 2]
    [] OTHER -> NoTry

NoPend == [k |-> "none", v |-> Undef]

RECURSIVE IterRun(_, _, _), IterRaise(_, _, _, _, _), IterStep(_, _, _, _)

\* an abrupt completion (kind "throw" or "return") at instruction pc
IterRaise(s, p, pc, kind, v) ==
  IF Try(s.procs[p].saga).from <= pc /\ pc <= Try(s.procs[p].saga).to
  THEN IterRun([s EXCEPT !.procs[p].pend = [k |-> kind, v |-> v]], p,
               Try(s.procs[p].saga).fin)
  ELSE [s EXCEPT !.procs[p].done = TRUE,
                 !.r = [out |-> IF kind = "return" THEN "done" ELSE "throw", value |-> v]]

\* run the generator from instruction pc to its next yield or to its end
IterRun(s, p, pc) ==
  IF pc > Len(Prog(s.procs[p].saga))
  THEN [s EXCEPT !.procs[p].done = TRUE, !.r = [out |-> "done", value |-> Undef]]
  ELSE IterStep(s, p, pc, Prog(s.procs[p].saga)[pc])

\* the instruction ins, which is at pc
IterStep(s, p, pc, ins) ==
    CASE ins.op = "log" ->
           IterRun([s EXCEPT !.pobs.log = Append(@, <<p, ins.ev>>)], p, pc + 1)
      [] ins.op = "jmp" -> IterRun(s, p, ins.to)
      [] ins.op = "store" -> IterRun([s EXCEPT !.procs[p].chan = s.procs[p].last], p, pc + 1)
      [] ins.op = "ifnot" ->
           IF s.procs[p].last.a = "true" THEN IterRun(s, p, pc + 1)
           ELSE IterRun(s, p, ins.to)
      [] ins.op = "throw" -> IterRaise(s, p, pc, "throw", Err("saga error"))
      [] ins.op = "return" -> IterRaise(s, p, pc, "return", ins.v)
      [] ins.op = "endfinally" ->
           IF s.procs[p].pend.k = "none" THEN IterRun(s, p, pc + 1)
           ELSE IterRaise([s EXCEPT !.procs[p].pend = NoPend], p, pc,
                          s.procs[p].pend.k, s.procs[p].pend.v)
      [] OTHER -> [s EXCEPT !.procs[p].pc = pc, !.r = [out |-> "yield", value |-> ins]]

\* iterator.next(arg)
it_next(s, p, arg) ==
  IF s.procs[p].done THEN [s EXCEPT !.r = [out |-> "done", value |-> Undef]]
  ELSE IterRun([s EXCEPT !.procs[p].last = arg], p, s.procs[p].pc + 1)

\* iterator.throw(err)
it_throw(s, p, err) ==
  IF s.procs[p].done \/ s.procs[p].pc = 0
  THEN [s EXCEPT !.procs[p].done = TRUE, !.r = [out |-> "throw", value |-> err]]
  ELSE IterRaise(s, p, s.procs[p].pc, "throw", err)

\* iterator.return(v)
it_return(s, p, v) ==
  IF s.procs[p].done \/ s.procs[p].pc = 0
  THEN [s EXCEPT !.procs[p].done = TRUE, !.r = [out |-> "done", value |-> v]]
  ELSE IterRaise(s, p, s.procs[p].pc, "return", v)

----------------------------------------------------------------------------
(* proc.js.  Closures are records: k names the function, the other fields *)
(* are what it closes over.  procs holds one record for each call of      *)
(* proc(), effects one for each call of digestEffect().                   *)

\* completion callbacks
NextCb(p) == [k |-> "next", p |-> p]
CurrCb(e) == [k |-> "currCb", e |-> e]
\* the task.cont addTask installs on member m of the queue of p (0: mainTask)
FqCont(p, m) == [k |-> "fqcont", p |-> p, m |-> m]
\* chCbAtKey of the race effect e, for the i-th key
ChCb(e, i) == [k |-> "chCb", e |-> e, i |-> i]
\* chCbAtKey of the all effect e, for the i-th key
AllCb(e, i) == [k |-> "allCb", e |-> e, i |-> i]
Noop == [k |-> "noop"]
Null == [k |-> "null"]
\* cancel functions
EffCancel(e) == [k |-> "effCancel", e |-> e]
TakerCancel(rid) == [k |-> "takerCancel", rid |-> rid]
\* the cb.cancel take installs on a taker of the single-consumer channel c
ChanTakerCancel(c, rid) == [k |-> "chanTakerCancel", c |-> c, rid |-> rid]
TaskCancel(p) == [k |-> "taskCancel", p |-> p]
JoinerCancel(t, e) == [k |-> "joinerCancel", t |-> t, e |-> e]
\* the cb.cancel runRaceEffect installs
RaceCancel(e) == [k |-> "raceCancel", e |-> e]
\* the cb.cancel runAllEffect installs
AllCancel(e) == [k |-> "allCancel", e |-> e]
\* () => cpsCb.cancel()
Hook(e) == [k |-> "hook", e |-> e]
Undefined == [k |-> "undefined"]

\* cb.cancel = c
SetCancel(s, cb, c) ==
  CASE cb.k = "next" -> [s EXCEPT !.procs[cb.p].nextCancel = c]
    [] cb.k = "currCb" -> [s EXCEPT !.effects[cb.e].cancel = c]
    [] cb.k = "chCb" -> [s EXCEPT !.effects[cb.e].childCancel[cb.i] = c]
    [] cb.k = "allCb" -> [s EXCEPT !.effects[cb.e].childCancel[cb.i] = c]
    [] OTHER -> s

\* member.cont = c, for member m of the fork queue of p
SetTaskCont(s, p, m, c) ==
  IF m = 0 THEN [s EXCEPT !.procs[p].mainTask.cont = c]
  ELSE [s EXCEPT !.procs[m].cont = c]

RECURSIVE removeMember(_, _)
removeMember(tasks, m) ==
  IF tasks = <<>> THEN <<>>
  ELSE IF Head(tasks) = m THEN Tail(tasks)
  ELSE <<Head(tasks)>> \o removeMember(Tail(tasks), m)

RECURSIVE removeJoiner(_, _)
removeJoiner(joiners, e) ==
  IF joiners = <<>> THEN <<>>
  ELSE IF Head(joiners).e = e THEN Tail(joiners)
  ELSE <<Head(joiners)>> \o removeJoiner(Tail(joiners), e)

IsSagaAction(v) == v.k = "act" /\ v.saga

\* the task stdChannel hands to asap: () => put(input)
StdPutTask(s, input) ==
  [k |-> "stdput", id |-> s.sobs.nextJob, input |-> input, origin |-> Origin(s),
   by |-> s.by, mw |-> s.mw]

\* chan.put that defers every input
std_putDeferred(s, input) ==
  Call([s EXCEPT !.sobs.nextJob = @ + 1], <<"asap", StdPutTask(s, input)>>)

\* chan.put that defers no input
std_putDirect(s, input) == Call(s, <<"mc_put", input>>)

\* stdChannel(): chan.put

\* observation, in sobs.deferred: the tasks handed to asap, each with the
\* scheduled task that was running then
std_put(s, input) ==
  IF IsSagaAction(input) THEN Call(s, <<"mc_put", input>>)
  ELSE Call([s EXCEPT !.sobs.nextJob = @ + 1,
                      !.sobs.deferred = @ \cup {[id |-> s.sobs.nextJob, issuedIn |-> Cur(s)]}],
            <<"asap", StdPutTask(s, input)>>)

\* observation, in pobs.trace: what call n of the middleware does
Traced(s, ev, n, v) == [s EXCEPT !.pobs.trace = Append(@, [ev |-> ev, n |-> n, v |-> v])]

\* sagaMonitor.actionDispatched(action), of a monitor that only records
actionDispatched(s, n, action) == Traced(s, "monitor", n, action)

\* next(action), around a store that has no other middleware: the action
\* reaches the reducers, which hold no saga state, and the store's dispatch
\* returns the action
hitReducers(s, n, action) == [Traced(s, "next", n, action) EXCEPT !.r = action]

\* the middleware with channel.put before next
middlewarePutFirst(s, action) ==
  LET n == s.pobs.dispatched + 1
      s1 == actionDispatched([s EXCEPT !.pobs.dispatched = n], n, action)
      s2 == Call([s1 EXCEPT !.mw = n], <<"std_put", action>>)
      s3 == hitReducers([s2 EXCEPT !.mw = s.mw], n, action)
  IN IF Threw(s2) THEN [s2 EXCEPT !.mw = s.mw] ELSE Traced(s3, "return", n, s3.r)

\* the function sagaMiddleware returns: next => action => { ... }
\* observation, in pobs.dispatched: the number of calls
middleware(s, action) ==
  LET n == s.pobs.dispatched + 1
      s1 == actionDispatched([s EXCEPT !.pobs.dispatched = n], n, action)
      s2 == hitReducers(s1, n, action)
      result == s2.r
      s3 == Call([s2 EXCEPT !.mw = n], <<"std_put", action>>)
  IN IF Threw(s3) THEN [s3 EXCEPT !.mw = s.mw]
     ELSE Traced([s3 EXCEPT !.mw = s.mw, !.r = result], "return", n, result)

\* the dispatch a proc is given: it marks the action as put by a saga and
\* hands it to the store's dispatch
dispatch(s, action) == Call(s, <<"middleware", [action EXCEPT !.saga = TRUE]>>)

\* the property names of the contexts
CtxKeys == {"user", "lang"}

\* an object with no own property: Undef marks a property that is not an own one
NoProps == [prop \in CtxKeys |-> Undef]

\* options.context of runSaga, the parentContext of a root proc
RootContext == [NoProps EXCEPT !["user"] = Num("0")]

\* function newTask and the first lines of proc
NewProc(saga, cont, parentEffectId) ==
  [saga |-> saga, parentEffectId |-> parentEffectId, pc |-> 0, done |-> FALSE,
   last |-> Undef, pend |-> NoPend, chan |-> Undef,
   cont |-> cont, joiners |-> <<>>, joinersNull |-> FALSE,
   isRunning |-> TRUE, isCancelled |-> FALSE, isAborted |-> FALSE,
   result |-> Undef, error |-> Undef,
   mainTask |-> [isRunning |-> TRUE, isCancelled |-> FALSE, isMainRunning |-> TRUE,
                 cont |-> Noop],
   nextCancel |-> Noop,
   tasks |-> <<>>, fqResult |-> Undef, completed |-> FALSE,
   \* observations
   parent |-> 0, cur |-> 0, ends |-> <<>>, conts |-> 0, cancelResumes |-> 0,
   pendAtCancel |-> 0, failed |-> <<>>,
   reported |-> 0, returned |-> <<>>, openAtEnd |-> FALSE,
   added |-> <<>>, signals |-> <<>>, seen |-> <<>>, lateResumes |-> <<>>,
   \* Object.create(parentContext): the own properties, and the proc whose
   \* taskContext is the prototype, 0 for options.context
   taskContext |-> NoProps, parentContext |-> 0]

NewEffect(p, cb, ins) ==
  [p |-> p, cb |-> cb, ins |-> ins, settled |-> FALSE, cancel |-> Noop,
   \* observations
   nCb |-> 0, nHook |-> 0, cancelRan |-> FALSE, lateCb |-> FALSE,
   lateHook |-> FALSE, ignored |-> 0, res |-> <<>>, firstSlice |-> FALSE,
   early |-> FALSE, target |-> 0,
   \* of a race or all effect: completed, childCbs[key].cancel, and the
   \* observation of the calls of its chCbAtKey
   completed |-> FALSE, childCancel |-> <<>>, arrivals |-> <<>>,
   \* of an all effect: completedCount and results
   completedCount |-> 0, results |-> <<>>,
   \* of an actionChannel effect, an observation
   since |-> 0,
   \* of a put effect, observations: the runs of its scheduled task, and
   \* whether the effect had been cancelled when it ran
   ran |-> 0, ranCancelled |-> FALSE]

\* cb(res, isErr)
CallCb(s, cb, res, isErr) ==
  CASE cb.k = "noop" -> s
    [] cb.k = "next" -> Call(s, <<"next", cb.p, res, isErr>>)
    [] cb.k = "currCb" -> Call(s, <<"currCb", cb.e, res, isErr>>)
    [] cb.k = "fqcont" -> Call(s, <<"fqcont", cb.p, cb.m, res, isErr>>)
    [] cb.k = "chCb" -> Call(s, <<"chCbAtKey", cb.e, cb.i, res, isErr>>)
    [] cb.k = "allCb" -> Call(s, <<"all_chCbAtKey", cb.e, cb.i, res, isErr>>)

\* c()
CallCancel(s, c) ==
  CASE c.k = "noop" -> s
    [] c.k = "effCancel" -> Call(s, <<"effCancel", c.e>>)
    [] c.k = "takerCancel" -> Call(s, <<"mc_cancel", c.rid>>)
    [] c.k = "chanTakerCancel" -> Call(s, <<"chan_cancel", c.c, c.rid>>)
    [] c.k = "taskCancel" -> Call(s, <<"cancel", c.p>>)
    [] c.k = "raceCancel" -> Call(s, <<"raceCancel", c.e>>)
    [] c.k = "allCancel" -> Call(s, <<"all_cancel", c.e>>)
    \* remove(t.joiners, joiner); t.joiners is null once t has ended
    [] c.k = "joinerCancel" ->
         IF s.procs[c.t].joinersNull
         THEN Throw(s, Err("TypeError: Cannot read property 'indexOf' of null"))
         ELSE [s EXCEPT !.procs[c.t].joiners = removeJoiner(@, c.e)]
    \* the cancel function the host's cps function installed
    [] c.k = "hook" -> s
    [] c.k = "undefined" -> Throw(s, Err("TypeError: currCb.cancel is not a function"))

\* observation: member m of the queue of p terminates with the error err
Failed(s, p, m, err) ==
  [s EXCEPT !.procs[p].failed =
              Append(@, [m |-> m, err |-> err, members |-> s.procs[p].tasks,
                         completed |-> s.procs[p].completed])]

\* forkQueue: addTask
addTask(s, p, m) ==
  LET s1 == IF m = 0 THEN s ELSE [s EXCEPT !.procs[m].parent = p]
  IN SetTaskCont([s1 EXCEPT !.procs[p].tasks = Append(@, m),
                            !.procs[p].added = Append(@, m)], p, m, FqCont(p, m))

\* forkQueue: the body of tasks.forEach in cancelAll, over the members ts
RECURSIVE CancelAllLoop(_, _, _)
CancelAllLoop(s, p, ts) ==
  IF Threw(s) \/ ts = <<>> THEN s
  ELSE LET t == Head(ts)
           s1 == SetTaskCont(s, p, t, Noop)
           s2 == IF t = 0 THEN Call(s1, <<"cancelMain", p>>)
                 ELSE Call(s1, <<"cancel", t>>)
       IN CancelAllLoop(s2, p, Tail(ts))

cancelAll(s, p) ==
  IF s.procs[p].completed THEN s
  ELSE LET s1 == [s EXCEPT !.procs[p].completed = TRUE]
           s2 == CancelAllLoop(s1, p, s1.procs[p].tasks)
       IN IF Threw(s2) THEN s2 ELSE [s2 EXCEPT !.procs[p].tasks = <<>>]

\* member m of the queue of p has completed, has aborted or was cancelled
Terminated(s, p, m) ==
  IF m = 0
  THEN ~s.procs[p].mainTask.isMainRunning \/ s.procs[p].mainTask.isCancelled
  ELSE ~s.procs[m].isRunning

\* observation: the queue of p is about to call cb; the members added so
\* far, those of them that have terminated, and the members it holds
Signalled(s, p, isErr) ==
  [s EXCEPT !.procs[p].signals =
              Append(@, [isErr |-> isErr, added |-> s.procs[p].added,
                         terminated |-> {i \in 1..Len(s.procs[p].added) :
                                           Terminated(s, p, s.procs[p].added[i])},
                         held |-> s.procs[p].tasks])]

\* abort that ends the procedure and cancels nothing
abortOnly(s, p, err) == Call(s, <<"end", p, err, TRUE>>)

\* forkQueue: abort; onAbort() only records names for the error report
abort(s, p, err) ==
  LET s2 == Call(s, <<"cancelAll", p>>)
  IN IF Threw(s2) THEN s2 ELSE Call(Signalled(s2, p, TRUE), <<"end", p, err, TRUE>>)

\* task.cont that reports completion as soon as the main task has returned
fqcontEager(s, p, m, res, isErr) ==
  IF s.procs[p].completed THEN s
  ELSE LET s1 == [s EXCEPT !.procs[p].tasks = removeMember(@, m)]
           s2 == SetTaskCont(s1, p, m, Noop)
       IN IF isErr THEN Call(s2, <<"abort", p, res>>)
          ELSE LET s3 == IF m = 0 THEN [s2 EXCEPT !.procs[p].fqResult = res] ELSE s2
               IN IF m = 0
                  THEN Call([s3 EXCEPT !.procs[p].completed = TRUE], <<"end", p,
                           s3.procs[p].fqResult, FALSE>>)
                  ELSE s3

\* forkQueue: the task.cont of member m
fqcont(s, p, m, res, isErr) ==
  IF s.procs[p].completed THEN s
  ELSE LET s1 == [s EXCEPT !.procs[p].tasks = removeMember(@, m)]
           s2 == SetTaskCont(s1, p, m, Noop)
       IN IF isErr THEN Call(s2, <<"abort", p, res>>)
          ELSE LET s3 == IF m = 0 THEN [s2 EXCEPT !.procs[p].fqResult = res] ELSE s2
               IN IF s3.procs[p].tasks = <<>>
                  THEN Call(Signalled([s3 EXCEPT !.procs[p].completed = TRUE], p, FALSE),
                            <<"end", p, s3.procs[p].fqResult, FALSE>>)
                  ELSE s3

cancelMain(s, p) ==
  IF s.procs[p].mainTask.isRunning /\ ~s.procs[p].mainTask.isCancelled
  THEN Call([s EXCEPT !.procs[p].mainTask.isCancelled = TRUE],
            <<"next", p, TASK_CANCEL, FALSE>>)
  ELSE s

\* the effect p is blocked on (0: none)
Pending(s, p) ==
  LET e == s.procs[p].cur IN IF e # 0 /\ ~s.effects[e].settled THEN e ELSE 0

\* cancel without the test of the status
cancelUnguarded(s, p) ==
  LET s1 == [s EXCEPT !.procs[p].isCancelled = TRUE,
                      !.procs[p].pendAtCancel = Pending(s, p)]
      s2 == Call(s1, <<"cancelAll", p>>)
  IN IF Threw(s2) THEN s2 ELSE Call(s2, <<"end", p, TASK_CANCEL, FALSE>>)

\* observation, in pobs.idle: the tasks on which cancel() was called when
\* they had terminated or had been cancelled
cancel(s, p) ==
  IF s.procs[p].isRunning /\ ~s.procs[p].isCancelled
  THEN LET s1 == [s EXCEPT !.procs[p].isCancelled = TRUE,
                           !.procs[p].pendAtCancel = Pending(s, p)]
           s2 == Call(s1, <<"cancelAll", p>>)
       IN IF Threw(s2) THEN s2 ELSE Call(s2, <<"end", p, TASK_CANCEL, FALSE>>)
  ELSE [s EXCEPT !.pobs.idle = @ \cup {p}]

\* observation: what a callback that end of p is about to invoke, the
\* continuation or a joiner, finds on the task handle of p
Seen(s, p, by) ==
  [s EXCEPT !.procs[p].seen = Append(@, [by |-> by, isRunning |-> s.procs[p].isRunning,
                                         joinersNull |-> s.procs[p].joinersNull])]

RECURSIVE JoinLoop(_, _, _, _, _, _)
\* task.joiners.forEach(j => j.cb(result, isErr)): i counts from 1 to the
\* length n the array had when forEach was called
JoinLoop(s, p, i, n, result, isErr) ==
  IF Threw(s) \/ i > n THEN s
  ELSE IF i > Len(s.procs[p].joiners) THEN s
  ELSE JoinLoop(CallCb(Seen(s, p, "joiner"), CurrCb(s.procs[p].joiners[i].e), result,
                       isErr),
                p, i + 1, n, result, isErr)

\* observation: the main task of p or a fork attached to p has not terminated
Open(s, p) ==
  \/ s.procs[p].mainTask.isMainRunning
  \/ \E m \in 1..Len(s.procs) : s.procs[m].parent = p /\ s.procs[m].isRunning

\* end that leaves task.joiners as it is
endKeepsJoiners(s, p, result, isErr) ==
  LET s1 == [s EXCEPT !.procs[p].isRunning = FALSE,
                      !.procs[p].openAtEnd = @ \/ Open(s, p),
                      !.procs[p].ends = Append(@, [v |-> result, isErr |-> isErr])]
      s2 == IF ~isErr THEN [s1 EXCEPT !.procs[p].result = result]
            ELSE LET q == s1.procs[p].parent
                     s0 == IF q = 0 THEN s1 ELSE Failed(s1, q, p, result)
                 IN [s0 EXCEPT !.procs[p].error = result, !.procs[p].isAborted = TRUE,
                               !.procs[p].reported = @ + (IF s1.procs[p].cont.k = "null"
                                                          THEN 1 ELSE 0),
                               !.pobs.onError = @ + (IF s1.procs[p].cont.k = "null"
                                                     THEN 1 ELSE 0)]
      s3 == IF s2.procs[p].cont.k = "null" THEN s2
            ELSE CallCb(Seen([s2 EXCEPT !.procs[p].conts = @ + 1], p, "cont"),
                        s2.procs[p].cont,
                        result, isErr)
  IN IF Threw(s3) THEN s3
     ELSE IF s3.procs[p].joinersNull
     THEN Throw(s3, Err("TypeError: Cannot read property 'forEach' of null"))
     ELSE LET s4 == JoinLoop(s3, p, 1, Len(s3.procs[p].joiners), result, isErr)
          IN IF Threw(s4) THEN s4
             ELSE s4

end(s, p, result, isErr) ==
  LET s1 == [s EXCEPT !.procs[p].isRunning = FALSE,
                      !.procs[p].openAtEnd = @ \/ Open(s, p),
                      !.procs[p].ends = Append(@, [v |-> result, isErr |-> isErr])]
      s2 == IF ~isErr THEN [s1 EXCEPT !.procs[p].result = result]
            ELSE LET q == s1.procs[p].parent
                     s0 == IF q = 0 THEN s1 ELSE Failed(s1, q, p, result)
                 IN [s0 EXCEPT !.procs[p].error = result, !.procs[p].isAborted = TRUE,
                               !.procs[p].reported = @ + (IF s1.procs[p].cont.k = "null"
                                                          THEN 1 ELSE 0),
                               !.pobs.onError = @ + (IF s1.procs[p].cont.k = "null"
                                                     THEN 1 ELSE 0)]
      s3 == IF s2.procs[p].cont.k = "null" THEN s2
            ELSE CallCb(Seen([s2 EXCEPT !.procs[p].conts = @ + 1], p, "cont"),
                        s2.procs[p].cont,
                        result, isErr)
  IN IF Threw(s3) THEN s3
     ELSE IF s3.procs[p].joinersNull
     THEN Throw(s3, Err("TypeError: Cannot read property 'forEach' of null"))
     ELSE LET s4 == JoinLoop(s3, p, 1, Len(s3.procs[p].joiners), result, isErr)
          IN IF Threw(s4) THEN s4
             ELSE [s4 EXCEPT !.procs[p].joiners = <<>>, !.procs[p].joinersNull = TRUE]

\* observation, in lateResumes: the calls of next that pass the test of
\* mainTask.isRunning after the iterator has returned or thrown
Resumed(s, p, arg) ==
  IF s.procs[p].mainTask.isMainRunning THEN s
  ELSE [s EXCEPT !.procs[p].lateResumes = Append(@, arg)]

next(s, p, arg, isErr) ==
  IF ~s.procs[p].mainTask.isRunning
  THEN Throw(s, Err("Trying to resume an already finished generator"))
  ELSE
    LET s0 == Resumed(s, p, arg)
        stepped ==
          IF isErr THEN Call(s0, <<"it_throw", p, arg>>)
          ELSE IF arg.k = "TASK_CANCEL"
          THEN LET s1 == [s0 EXCEPT !.procs[p].mainTask.isCancelled = TRUE,
                                    !.procs[p].cancelResumes = @ + 1]
                   s2 == CallCancel(s1, s1.procs[p].nextCancel)
               IN IF Threw(s2) THEN s2 ELSE Call(s2, <<"it_return", p, TASK_CANCEL>>)
          ELSE IF arg.k = "CHANNEL_END" THEN Call(s0, <<"it_return", p, Undef>>)
          ELSE Call(s0, <<"it_next", p, arg>>)
        body ==
          IF Threw(stepped) THEN stepped
          ELSE IF stepped.r.out = "throw" THEN Throw(stepped, stepped.r.value)
          ELSE IF stepped.r.out = "yield"
          THEN Call(stepped, <<"digestEffect", p, stepped.r.value, NextCb(p)>>)
          ELSE LET s3 == [stepped EXCEPT !.procs[p].mainTask.isMainRunning = FALSE,
                                         !.procs[p].returned = Append(@, stepped.r.value)]
               IN CallCb(s3, s3.procs[p].mainTask.cont, stepped.r.value, FALSE)
    IN IF Threw(body)
       THEN LET s4 == [Calm(body) EXCEPT !.procs[p].mainTask.isMainRunning = FALSE]
            IN CallCb(Failed(s4, p, 0, body.exc), s4.procs[p].mainTask.cont,
                      body.exc, TRUE)
       ELSE body

\* proc(): r is the number of the new proc, for the task descriptor
proc(s, saga, cont, parentEffectId) ==
  LET p == Len(s.procs) + 1
      parentContext == IF parentEffectId = 0 THEN 0 ELSE s.effects[parentEffectId].p
      s1 == [s EXCEPT !.procs = Append(@, [NewProc(saga, cont, parentEffectId)
                                            EXCEPT !.parentContext = parentContext])]
      s2 == addTask(s1, p, 0)
      s3 == SetCancel(s2, cont, TaskCancel(p))
      s4 == Call(s3, <<"next", p, Undef, FALSE>>)
  IN [s4 EXCEPT !.r = p]

\* digestEffect: currCb without the effectSettled test
currCbUnguarded(s, e, res, isErr) ==
  LET eff == s.effects[e]
      s1 == [s EXCEPT !.effects[e].settled = TRUE, !.effects[e].nCb = @ + 1,
                      !.effects[e].res = Append(@, [v |-> res, isErr |-> isErr]),
                      !.effects[e].lateCb = @ \/ eff.cancelRan]
  IN CallCb(SetCancel(s1, eff.cb, Noop), eff.cb, res, isErr)

\* digestEffect: currCb
currCb(s, e, res, isErr) ==
  LET eff == s.effects[e] IN
  IF eff.settled THEN [s EXCEPT !.effects[e].ignored = @ + 1]
  ELSE LET s1 == [s EXCEPT !.effects[e].settled = TRUE, !.effects[e].nCb = @ + 1,
                           !.effects[e].res = Append(@, [v |-> res, isErr |-> isErr]),
                           !.effects[e].lateCb = @ \/ eff.cancelRan]
       IN CallCb(SetCancel(s1, eff.cb, Noop), eff.cb, res, isErr)

\* digestEffect: the function installed as cb.cancel
effCancel(s, e) ==
  LET eff == s.effects[e] IN
  IF eff.settled THEN s
  ELSE LET s1 == [s EXCEPT !.effects[e].settled = TRUE, !.effects[e].cancelRan = TRUE,
                           !.effects[e].nHook = @ + 1,
                           !.effects[e].lateHook = @ \/ (eff.nCb > 0)]
           \* try { currCb.cancel() } catch (err) { logError(err) }
           s2 == Calm(CallCancel(s1, eff.cancel))
       IN [s2 EXCEPT !.effects[e].cancel = Noop]

\* runTakeEffect, of take(chan) with chan a single-consumer channel
runTakeFrom(s, p, ins, e) ==
  LET rid == s.mobs.nextCb
      c == s.procs[p].chan.c
      cb == [k |-> "takeCb", rid |-> rid, pat |-> ins.pat, e |-> e,
             maybe |-> ins.maybe]
      registers == ~s.chans[c].closed /\ BufIsEmpty(s.chans[c])
      s1 == Call([s EXCEPT !.mobs.nextCb = @ + 1, !.effects[e].target = c],
                 <<"chan_take", c, cb>>)
  IN IF Threw(s1) THEN Call(Calm(s1), <<"currCb", e, s1.exc, TRUE>>)
     ELSE [s1 EXCEPT !.effects[e].cancel =
                        IF registers THEN ChanTakerCancel(c, rid) ELSE Undefined]

runTakeEffect(s, p, ins, e) ==
  LET rid == s.mobs.nextCb
      cb == [k |-> "takeCb", rid |-> rid, pat |-> ins.pat, e |-> e,
             maybe |-> ins.maybe]
      s1 == Call([s EXCEPT !.mobs.nextCb = @ + 1], <<"mc_take", cb>>)
  IN IF ins.chan THEN runTakeFrom(s, p, ins, e)
     ELSE IF Threw(s1) THEN Call(Calm(s1), <<"currCb", e, s1.exc, TRUE>>)
     \* cb.cancel = takeCb.cancel, which take sets when it registers takeCb
     ELSE [s1 EXCEPT !.effects[e].cancel =
                        IF s.mc.closed THEN Undefined ELSE TakerCancel(rid)]

\* runTakeEffect: takeCb
takeCb(s, cb, input) ==
  IF input.k = "error" THEN Call(s, <<"currCb", cb.e, input, TRUE>>)
  ELSE IF isEnd(input) /\ ~cb.maybe THEN Call(s, <<"currCb", cb.e, CHANNEL_END, FALSE>>)
  ELSE Call(s, <<"currCb", cb.e, input, FALSE>>)

\* observation: the fork effect that created proc p has called back and the
\* forking proc has run on to its next yield or to its end
ForkReturned(s, p) ==
  LET pe == s.procs[p].parentEffectId IN
  \/ pe = 0
  \/ /\ s.effects[pe].settled
     /\ s.procs[s.effects[pe].p].cur # pe \/ s.procs[s.effects[pe].p].done

runPutEffect(s, p, ins, e) ==
  Call([s EXCEPT !.sobs.nextJob = @ + 1,
                 !.effects[e].firstSlice = ~ForkReturned(s, p)],
       <<"asap", [k |-> "puteff", id |-> s.sobs.nextJob, e |-> e,
                  action |-> Act(ins.a), origin |-> Origin(s), by |-> p]>>)

\* runPutEffect: the function handed to asap
\* the scheduled task of a put that does nothing once the effect is cancelled
PutTaskUnlessCancelled(s, task) ==
  IF s.effects[task.e].cancelRan THEN s
  ELSE LET s0 == [s EXCEPT !.effects[task.e].ran = @ + 1]
           s1 == dispatch([s0 EXCEPT !.issuer = task.origin, !.by = task.by], task.action)
           s2 == [s1 EXCEPT !.issuer = s.issuer, !.by = s.by]
       IN IF Threw(s2) THEN Call(Calm(s2), <<"currCb", task.e, s2.exc, TRUE>>)
          ELSE Call(s2, <<"currCb", task.e, s2.r, FALSE>>)

PutTask(s, task) ==
  LET s0 == [s EXCEPT !.effects[task.e].early =
                        s.effects[task.e].firstSlice /\ ~ForkReturned(s, task.by),
                      !.effects[task.e].ran = @ + 1,
                      !.effects[task.e].ranCancelled = s.effects[task.e].cancelRan]
      s1 == dispatch([s0 EXCEPT !.issuer = task.origin, !.by = task.by], task.action)
      s2 == [s1 EXCEPT !.issuer = s.issuer, !.by = s.by]
  IN IF Threw(s2) THEN Call(Calm(s2), <<"currCb", task.e, s2.exc, TRUE>>)
     ELSE Call(s2, <<"currCb", task.e, s2.r, FALSE>>)

\* runCallEffect, of call(store.dispatch, action)
runCallEffect(s, p, ins, e) ==
  LET s1 == Call(s, <<"middleware", Act(ins.a)>>)
  IN IF Threw(s1) THEN Call(Calm(s1), <<"currCb", e, s1.exc, TRUE>>)
     ELSE Call(s1, <<"currCb", e, s1.r, FALSE>>)

\* runCPSEffect, of a function that keeps cpsCb and returns
runCPSEffect(s, p, ins, e) ==
  IF ins.hook THEN [s EXCEPT !.effects[e].cancel = Hook(e)] ELSE s

\* runCPSEffect: cpsCb, as the host calls it
cpsCb(s, e, isErr) ==
  IF isErr THEN Call(s, <<"currCb", e, Err("cps error"), TRUE>>)
  ELSE Call(s, <<"currCb", e, Undef, FALSE>>)

\* runForkEffect after proc() has returned task c
Forked(s, p, e, c, detached) ==
  IF Threw(s) THEN s
  ELSE IF detached THEN Call(s, <<"currCb", e, Task(c), FALSE>>)
  ELSE IF s.procs[c].isRunning
  THEN Call(addTask(s, p, c), <<"currCb", e, Task(c), FALSE>>)
  ELSE IF s.procs[c].error.k # "undef"
  THEN Call(Failed(s, p, c, s.procs[c].error), <<"abort", p, s.procs[c].error>>)
  ELSE Call(s, <<"currCb", e, Task(c), FALSE>>)

\* runForkEffect that attaches every task it creates
runForkEffectAttached(s, p, ins, e) ==
  LET s2 == Call(suspend(s), <<"proc", ins.saga, Noop, e>>)
      body == Forked(s2, p, e, s2.r, FALSE)
  IN AfterFinally(body, Call(Calm(body), <<"flush">>))

\* runForkEffect without suspend() and flush()
runForkEffectUnlocked(s, p, ins, e) ==
  LET s2 == Call(s, <<"proc", ins.saga, IF ins.detached THEN Null ELSE Noop, e>>)
  IN Forked(s2, p, e, s2.r, ins.detached)

runForkEffect(s, p, ins, e) ==
  LET s2 == Call(suspend(s), <<"proc", ins.saga, IF ins.detached THEN Null ELSE Noop, e>>)
      body == Forked(s2, p, e, s2.r, ins.detached)
  IN Leaves(s, AfterFinally(body, Call(Calm(body), <<"flush">>)), "fork",
            s2.procs[s2.r].isAborted)

runJoinEffect(s, p, ins, e) ==
  LET t == IF ins.first THEN s.pobs.roots[1] ELSE s.procs[p].last.p
      s0 == [s EXCEPT !.effects[e].target = t]
  IN IF s.procs[t].isRunning
     THEN [s0 EXCEPT !.effects[e].cancel = JoinerCancel(t, e),
                     !.procs[t].joiners = Append(@, [task |-> p, e |-> e])]
     ELSE IF s.procs[t].isAborted
     THEN Call(s0, <<"currCb", e, s.procs[t].error, TRUE>>)
     ELSE Call(s0, <<"currCb", e, s.procs[t].result, FALSE>>)

\* runCancelEffect that cancels nothing
runCancelEffectSkip(s, p, ins, e) == Call(s, <<"currCb", e, Undef, FALSE>>)

\* runCancelEffect, of cancel(): taskToCancel is SELF_CANCELLATION
runCancelEffect(s, p, ins, e) ==
  LET s1 == IF s.procs[p].isRunning THEN Call(s, <<"cancel", p>>) ELSE s
  IN IF Threw(s1) THEN s1 ELSE Call(s1, <<"currCb", e, Undef, FALSE>>)

\* runRaceEffect: chCbAtKey that cancels no other child
chCbAtKeyNoCancel(s, e, i, res, isErr) ==
  LET s0 == [s EXCEPT !.effects[e].arrivals = Append(@, [i |-> i, v |-> res,
                                                         isErr |-> isErr])]
  IN IF s0.effects[e].completed THEN s0
     ELSE IF isErr THEN Call(s0, <<"currCb", e, res, TRUE>>)
     ELSE IF ~isEnd(res) /\ res.k \notin {"CHANNEL_END", "TASK_CANCEL"}
     THEN Call([s0 EXCEPT !.effects[e].completed = TRUE],
               <<"currCb", e, Obj(s.effects[e].ins.kids[i].key, res), FALSE>>)
     ELSE s0

\* runRaceEffect: chCbAtKey for the i-th key; cb is the currCb of effect e
chCbAtKey(s, e, i, res, isErr) ==
  LET s0 == [s EXCEPT !.effects[e].arrivals = Append(@, [i |-> i, v |-> res,
                                                         isErr |-> isErr])]
      s1 == CallCancel(s0, s0.effects[e].cancel)
  IN IF s0.effects[e].completed THEN s0
     ELSE IF isErr
     THEN (IF Threw(s1) THEN s1 ELSE Call(s1, <<"currCb", e, res, TRUE>>))
     ELSE IF ~isEnd(res) /\ res.k \notin {"CHANNEL_END", "TASK_CANCEL"}
     THEN (IF Threw(s1) THEN s1
           ELSE Call([s1 EXCEPT !.effects[e].completed = TRUE],
                     <<"currCb", e, Obj(s.effects[e].ins.kids[i].key, res), FALSE>>))
     ELSE s0

\* keys.forEach(key => childCbs[key].cancel()), from the i-th key on
RECURSIVE RaceCancelLoop(_, _, _)
RaceCancelLoop(s, e, i) ==
  IF Threw(s) \/ i > Len(s.effects[e].ins.kids) THEN s
  ELSE RaceCancelLoop(CallCancel(s, s.effects[e].childCancel[i]), e, i + 1)

\* the cb.cancel of a race that cancels no child
raceCancelShallow(s, e) ==
  IF s.effects[e].completed THEN s ELSE [s EXCEPT !.effects[e].completed = TRUE]

\* runRaceEffect: the function installed as cb.cancel
raceCancel(s, e) ==
  IF s.effects[e].completed THEN s
  ELSE RaceCancelLoop([s EXCEPT !.effects[e].completed = TRUE], e, 1)

\* runRaceEffect: the keys.forEach that digests the children, from the i-th on
RECURSIVE RaceLoop(_, _, _, _)
RaceLoop(s, p, e, i) ==
  IF Threw(s) \/ i > Len(s.effects[e].ins.kids) THEN s
  ELSE IF s.effects[e].completed THEN RaceLoop(s, p, e, i + 1)
  ELSE RaceLoop(Call(s, <<"digestEffect", p, s.effects[e].ins.kids[i].ins, ChCb(e, i)>>),
                p, e, i + 1)

runRaceEffect(s, p, ins, e) ==
  RaceLoop([s EXCEPT !.effects[e].childCancel = [i \in 1..Len(ins.kids) |-> Noop],
                     !.effects[e].cancel = RaceCancel(e)], p, e, 1)

\* taker that does not register itself again
takerOnce(s, cb, action) == Call(s, <<"chan_put", cb.c, action>>)

\* runChannelEffect: taker, which registers itself again and puts the
\* action into chan
taker(s, cb, action) ==
  LET s1 == IF ~isEnd(action) THEN Call(s, <<"mc_take", cb>>) ELSE s
  IN IF Threw(s1) THEN s1 ELSE Call(s1, <<"chan_put", cb.c, action>>)

\* runChannelEffect: chan = channel(buffer), with buffer undefined
\* observation, in since: the number of puts entered when taker is registered
runChannelEffect(s, p, ins, e) ==
  LET c == Len(s.chans) + 1
      cb == [k |-> "taker", rid |-> s.mobs.nextCb, pat |-> ins.pat, c |-> c]
      s1 == [s EXCEPT !.chans = Append(@, Channel("expanding")),
                      !.mobs.nextCb = @ + 1,
                      !.effects[e].target = c,
                      !.effects[e].since = Len(s.mobs.puts)]
      s2 == Call(s1, <<"mc_take", cb>>)
  IN IF Threw(s2) THEN s2 ELSE Call(s2, <<"currCb", e, Chan(c), FALSE>>)

\* runAllEffect: the value cb is called with when every child has succeeded
AllResult(s, e) ==
  LET ins == s.effects[e].ins IN
  IF ins.isArray THEN arrayFrom(s.effects[e].results, Len(ins.kids))
  ELSE Object(s.effects[e].results)

\* checkEffectEnd that answers when the first child has succeeded
checkEffectEndEager(s, e) ==
  IF s.effects[e].completedCount >= 1
  THEN Call([s EXCEPT !.effects[e].completed = TRUE],
            <<"currCb", e, AllResult(s, e), FALSE>>)
  ELSE s

\* runAllEffect: checkEffectEnd
checkEffectEnd(s, e) ==
  IF s.effects[e].completedCount = Len(s.effects[e].ins.kids)
  THEN Call([s EXCEPT !.effects[e].completed = TRUE],
            <<"currCb", e, AllResult(s, e), FALSE>>)
  ELSE s

\* runAllEffect: chCbAtKey for the i-th key; cb is the currCb of effect e
all_chCbAtKey(s, e, i, res, isErr) ==
  LET s0 == [s EXCEPT !.effects[e].arrivals = Append(@, [i |-> i, v |-> res,
                                                         isErr |-> isErr])]
      key == s.effects[e].ins.kids[i].key
      old == s.effects[e].results
  IN IF s0.effects[e].completed THEN s0
     ELSE IF isErr \/ isEnd(res) \/ res.k \in {"CHANNEL_END", "TASK_CANCEL"}
     THEN LET s1 == CallCancel(s0, s0.effects[e].cancel)
          IN IF Threw(s1) THEN s1 ELSE Call(s1, <<"currCb", e, res, isErr>>)
     ELSE Call([s0 EXCEPT !.effects[e].results =
                            [x \in DOMAIN old \cup {key} |-> IF x = key THEN res ELSE old[x]],
                          !.effects[e].completedCount = @ + 1],
               <<"checkEffectEnd", e>>)

\* runAllEffect: the function installed as cb.cancel
all_cancel(s, e) ==
  IF s.effects[e].completed THEN s
  ELSE RaceCancelLoop([s EXCEPT !.effects[e].completed = TRUE], e, 1)

\* runAllEffect: the keys.forEach that digests the children, from the i-th on
RECURSIVE AllLoop(_, _, _, _)
AllLoop(s, p, e, i) ==
  IF Threw(s) \/ i > Len(s.effects[e].ins.kids) THEN s
  ELSE AllLoop(Call(s, <<"digestEffect", p, s.effects[e].ins.kids[i].ins, AllCb(e, i)>>),
               p, e, i + 1)

runAllEffect(s, p, ins, e) ==
  IF ins.kids = <<>>
  THEN Call(s, <<"currCb", e, IF ins.isArray THEN Array(<<>>) ELSE Object(<<>>), FALSE>>)
  ELSE AllLoop([s EXCEPT !.effects[e].childCancel = [i \in 1..Len(ins.kids) |-> Noop],
                         !.effects[e].cancel = AllCancel(e)], p, e, 1)

\* runCancelledEffect that answers false
runCancelledNever(s, p, ins, e) == Call(s, <<"currCb", e, Bool(FALSE), FALSE>>)

runCancelledEffect(s, p, ins, e) ==
  Call(s, <<"currCb", e, Bool(s.procs[p].mainTask.isCancelled), FALSE>>)

\* taskContext[prop] of proc p: the own property, else the prototype's
RECURSIVE getProp(_, _, _)
getProp(s, p, prop) ==
  IF p = 0 THEN RootContext[prop]
  ELSE IF s.procs[p].taskContext[prop] # Undef THEN s.procs[p].taskContext[prop]
  ELSE getProp(s, s.procs[p].parentContext, prop)

\* observation, in pobs.ctx: proc p yields the setContext effect ins
CtxSet(s, p, ins) ==
  [s EXCEPT !.pobs.ctx = Append(@, [ev |-> "set", p |-> p, prop |-> ins.prop, v |-> ins.v])]

runGetContextEffect(s, p, ins, e) ==
  LET got == getProp(s, p, ins.prop)
      s1 == [s EXCEPT !.pobs.ctx = Append(@, [ev |-> "get", p |-> p, prop |-> ins.prop,
                                              v |-> got])]
  IN Call(s1, <<"currCb", e, got, FALSE>>)

\* runSetContextEffect that assigns to the prototype
runSetContextShared(s, p, ins, e) ==
  LET o == s.procs[p].parentContext
      s1 == IF o = 0 THEN [s EXCEPT !.procs[p].taskContext[ins.prop] = ins.v]
            ELSE [s EXCEPT !.procs[o].taskContext[ins.prop] = ins.v]
  IN Call(CtxSet(s1, p, ins), <<"currCb", e, Undef, FALSE>>)

runSetContextEffect(s, p, ins, e) ==
  LET s1 == [s EXCEPT !.procs[p].taskContext[ins.prop] = ins.v]
  IN Call(CtxSet(s1, p, ins), <<"currCb", e, Undef, FALSE>>)

runEffect(s, p, ins, e) ==
  CASE ins.op = "take" -> runTakeEffect(s, p, ins, e)
    [] ins.op = "put" -> runPutEffect(s, p, ins, e)
    [] ins.op = "call" -> runCallEffect(s, p, ins, e)
    [] ins.op = "cps" -> runCPSEffect(s, p, ins, e)
    [] ins.op = "fork" -> runForkEffect(s, p, ins, e)
    [] ins.op = "join" -> runJoinEffect(s, p, ins, e)
    [] ins.op = "cancel" -> runCancelEffect(s, p, ins, e)
    [] ins.op = "cancelled" -> runCancelledEffect(s, p, ins, e)
    [] ins.op = "race" -> runRaceEffect(s, p, ins, e)
    [] ins.op = "all" -> runAllEffect(s, p, ins, e)
    [] ins.op = "actionChannel" -> runChannelEffect(s, p, ins, e)
    [] ins.op = "getContext" -> runGetContextEffect(s, p, ins, e)
    [] ins.op = "setContext" -> runSetContextEffect(s, p, ins, e)

digestEffect(s, p, ins, cb) ==
  LET e == Len(s.effects) + 1
      s1 == [s EXCEPT !.effects = Append(@, NewEffect(p, cb, ins)),
                      !.procs[p].cur = IF cb.k = "next" THEN e ELSE @]
  IN runEffect(SetCancel(s1, cb, EffCancel(e)), p, ins, e)

Call(s, c) ==
  CASE c[1] = "next" -> next(s, c[2], c[3], c[4])
    [] c[1] = "end" -> end(s, c[2], c[3], c[4])
    [] c[1] = "cancel" -> cancel(s, c[2])
    [] c[1] = "cancelMain" -> cancelMain(s, c[2])
    [] c[1] = "cancelAll" -> cancelAll(s, c[2])
    [] c[1] = "abort" -> abort(s, c[2], c[3])
    [] c[1] = "fqcont" -> fqcont(s, c[2], c[3], c[4], c[5])
    [] c[1] = "proc" -> proc(s, c[2], c[3], c[4])
    [] c[1] = "digestEffect" -> digestEffect(s, c[2], c[3], c[4])
    [] c[1] = "currCb" -> currCb(s, c[2], c[3], c[4])
    [] c[1] = "effCancel" -> effCancel(s, c[2])
    [] c[1] = "chCbAtKey" -> chCbAtKey(s, c[2], c[3], c[4], c[5])
    [] c[1] = "raceCancel" -> raceCancel(s, c[2])
    [] c[1] = "all_chCbAtKey" -> all_chCbAtKey(s, c[2], c[3], c[4], c[5])
    [] c[1] = "all_cancel" -> all_cancel(s, c[2])
    [] c[1] = "checkEffectEnd" -> checkEffectEnd(s, c[2])
    [] c[1] = "PutTask" -> PutTask(s, c[2])
    [] c[1] = "takeCb" -> takeCb(s, c[2], c[3])
    [] c[1] = "taker" -> taker(s, c[2], c[3])
    [] c[1] = "it_next" -> it_next(s, c[2], c[3])
    [] c[1] = "it_throw" -> it_throw(s, c[2], c[3])
    [] c[1] = "it_return" -> it_return(s, c[2], c[3])
    [] c[1] = "asap" -> asap(s, c[2])
    [] c[1] = "flush" -> flush(s)
    [] c[1] = "mc_put" -> mc_put(s, c[2])
    [] c[1] = "std_put" -> std_put(s, c[2])
    [] c[1] = "middleware" -> middleware(s, c[2])
    [] c[1] = "mc_take" -> mc_take(s, c[2])
    [] c[1] = "mc_cancel" -> mc_cancel(s, c[2])
    [] c[1] = "mc_close" -> mc_close(s)
    [] c[1] = "chan_put" -> chan_put(s, c[2], c[3])
    [] c[1] = "chan_take" -> chan_take(s, c[2], c[3])
    [] c[1] = "chan_flush" -> chan_flush(s, c[2], c[3])
    [] c[1] = "chan_close" -> chan_close(s, c[2])
    [] c[1] = "chan_cancel" -> chan_cancel(s, c[2], c[3])
    [] c[1] = "ec_close" -> ec_close(s)
    [] c[1] = "unsubscribe" -> unsubscribe(s)
    [] c[1] = "hostUnsubscribe" -> hostUnsubscribe(s)
    [] c[1] = "RunCbScript" -> RunCbScript(s, c[2], c[3])
    [] c[1] = "RunMcScript" -> RunMcScript(s, c[2])
    [] c[1] = "emitter" -> emitter(s, c[2])
    [] c[1] = "eventChannel" -> eventChannel(s, c[2], c[3], c[4])

----------------------------------------------------------------------------
(* The program state as one record, and back *)

St == [semaphore |-> semaphore, queue |-> queue, sobs |-> sobs,
       chans |-> chans, cobs |-> cobs, mc |-> mc, mobs |-> mobs,
       procs |-> procs, effects |-> effects, pobs |-> pobs, evt |-> evt,
       \* what lives for one external call: the exception being thrown, the
       \* scheduled tasks and the puts on the stack, the origin of the put
       \* being made, and the value the last call returned
       \* mw: the call of the middleware whose action is being put (0: none)
       exc |-> NoExc, running |-> 0, active |-> <<>>, issuer |-> 0, by |-> 0,
       mw |-> 0, r |-> Undef]

\* an exception that reaches the external caller is dropped there
Commit(s) ==
  /\ semaphore' = s.semaphore
  /\ queue' = s.queue
  /\ sobs' = [s.sobs EXCEPT !.uncaught = @ + (IF Threw(s) THEN 1 ELSE 0)]
  /\ chans' = s.chans
  /\ cobs' = s.cobs
  /\ mc' = Collect(s.mc)
  /\ mobs' = s.mobs
  /\ procs' = s.procs
  /\ effects' = s.effects
  /\ pobs' = s.pobs
  /\ evt' = s.evt
  /\ steps' = steps + 1

InitWith(kind) ==
  /\ semaphore = 0
  /\ queue = <<>>
  /\ sobs = [nested |-> FALSE, lowSem |-> FALSE, negative |-> FALSE, calls |-> {},
             executed |-> <<>>, nextJob |-> 1,
             uncaught |-> 0, deferred |-> {}]
  /\ chans = <<Channel(kind)>>
  /\ cobs = [forbidden |-> FALSE, delivered |-> <<>>, nextCb |-> 1, ended |-> <<>>,
             cancels |-> <<>>]
  /\ mc = Multicast
  /\ mobs = [puts |-> <<>>, fired |-> <<>>, nextCb |-> 1, early |-> FALSE, ended |-> <<>>,
             cancels |-> <<>>]
  /\ procs = <<>>
  /\ effects = <<>>
  /\ pobs = [log |-> <<>>, onError |-> 0, roots |-> <<>>, idle |-> {}, dispatched |-> 0,
             trace |-> <<>>, ctx |-> <<>>]
  /\ evt = NoEvt
  /\ steps = 0

\* channel(): the default buffer is buffers.expanding()
Init == InitWith("expanding")

----------------------------------------------------------------------------
(* The scheduler driven from outside: asap, and suspend/flush in pairs *)

SchedAsap ==
  /\ steps < MaxSchedSteps
  /\ \E script \in Scripts2 :
       Commit(Call([St EXCEPT !.sobs.nextJob = @ + 1], <<"asap", NewJob(St, script)>>))

SchedSuspend ==
  /\ steps < MaxSchedSteps
  /\ semaphore < MaxLocks
  /\ Commit(suspend(St))

\* the flush that closes an open suspend
SchedFlush ==
  /\ semaphore > 0
  /\ Commit(Call(St, <<"flush">>))

NextSched == SchedAsap \/ SchedSuspend \/ SchedFlush

SpecSched == Init /\ [][NextSched]_vars

----------------------------------------------------------------------------
(* One single-consumer channel driven from outside *)

ChanPut ==
  /\ steps < MaxChanSteps
  /\ \E type \in {"x", "y"} : Commit(Call(St, <<"chan_put", 1, Act(type)>>))

ChanTake ==
  /\ steps < MaxChanSteps
  /\ \E script \in CbScripts2 :
       Commit(Call([St EXCEPT !.cobs.nextCb = @ + 1], <<"chan_take", 1, NewCb(St, script)>>))

ChanFlush ==
  /\ steps < MaxChanSteps
  /\ \E script \in CbScripts1 :
       Commit(Call([St EXCEPT !.cobs.nextCb = @ + 1], <<"chan_flush", 1, NewCb(St, script)>>))

ChanClose ==
  /\ steps < MaxChanSteps
  /\ Commit(Call(St, <<"chan_close", 1>>))

\* the cancel of a taker that was registered
ChanCancel ==
  /\ steps < MaxChanSteps
  /\ \E rid \in 1..(cobs.nextCb - 1) : Commit(Call(St, <<"chan_cancel", 1, rid>>))

NextChan == ChanPut \/ ChanTake \/ ChanFlush \/ ChanClose \/ ChanCancel

SpecChan == (\E kind \in BufKinds : InitWith(kind)) /\ [][NextChan]_vars

----------------------------------------------------------------------------
(* One multicast channel driven from outside *)

MulticastPut ==
  /\ steps < MaxMcSteps
  /\ \E input \in {Act("x"), Act("y"), END} : Commit(Call(St, <<"mc_put", input>>))

MulticastTake ==
  /\ steps < MaxMcSteps
  /\ \E pat \in Pats, script \in McScripts1 :
       Commit(Call([St EXCEPT !.mobs.nextCb = @ + 1], <<"mc_take", NewMcCb(St, pat, script)>>))

MulticastClose ==
  /\ steps < MaxMcSteps
  /\ Commit(Call(St, <<"mc_close">>))

\* the cancel of a taker that was registered
MulticastCancel ==
  /\ steps < MaxMcSteps
  /\ \E rid \in 1..(mobs.nextCb - 1) :
       /\ \E i \in 1..Len(NextTakers(mc)) : NextTakers(mc)[i].rid = rid
       /\ Commit(Call(St, <<"mc_cancel", rid>>))

NextMc == MulticastPut \/ MulticastTake \/ MulticastClose \/ MulticastCancel

SpecMc == Init /\ [][NextMc]_vars

----------------------------------------------------------------------------
(* One multicast channel whose takers cancel other takers, put and take   *)
(* from their callbacks                                                   *)

SnapScripts == {<<>>, <<McCancel(1)>>, <<McCancel(2)>>, <<McCancel(3)>>, <<McPut("y")>>,
                <<McTake(Wildcard, <<>>)>>}

SnapPut ==
  /\ steps < MaxSnapSteps
  /\ \E input \in {Act("x"), Act("y")} : Commit(Call(St, <<"mc_put", input>>))

SnapTake ==
  /\ steps < MaxSnapSteps
  /\ \E pat \in Pats, script \in SnapScripts :
       Commit(Call([St EXCEPT !.mobs.nextCb = @ + 1],
                   <<"mc_take", NewMcCb(St, pat, script)>>))

\* the cancel of a taker that was registered
SnapCancel ==
  /\ steps < MaxSnapSteps
  /\ \E rid \in 1..(mobs.nextCb - 1) :
       /\ \E i \in 1..Len(NextTakers(mc)) : NextTakers(mc)[i].rid = rid
       /\ Commit(Call(St, <<"mc_cancel", rid>>))

NextSnap == SnapPut \/ SnapTake \/ SnapCancel

SpecSnap == Init /\ [][NextSnap]_vars

----------------------------------------------------------------------------
(* One event channel driven from outside: the host creates it, emits, and *)
(* the consumer takes, flushes and closes.                                *)

\* eventChannel(subscribe, buffer); the default buffer is buffers.none()
EvtMake ==
  /\ steps < MaxEvtSteps
  /\ ~evt.made
  /\ \E kind \in {"none", "expanding"}, script \in SubscribeScripts,
        unsub \in UnsubscribeScripts, k \in {"func", "undefined"} :
       Commit(Call(St, <<"eventChannel", kind, script, [k |-> k, script |-> unsub]>>))

\* the host calls the emitter
EvtEmit ==
  /\ steps < MaxEvtSteps
  /\ evt.made
  /\ \E input \in {Act("x"), Act("y"), END} : Commit(Call(St, <<"emitter", input>>))

EvtTake ==
  /\ steps < MaxEvtSteps
  /\ evt.made
  /\ \E script \in EvtCbScripts :
       Commit(Call([St EXCEPT !.cobs.nextCb = @ + 1], <<"chan_take", 1, NewCb(St, script)>>))

EvtFlush ==
  /\ steps < MaxEvtSteps
  /\ evt.made
  /\ \E script \in EvtCbScripts :
       Commit(Call([St EXCEPT !.cobs.nextCb = @ + 1], <<"chan_flush", 1, NewCb(St, script)>>))

EvtClose ==
  /\ steps < MaxEvtSteps
  /\ evt.made
  /\ Commit(Call(St, <<"ec_close">>))

NextEvt == EvtMake \/ EvtEmit \/ EvtTake \/ EvtFlush \/ EvtClose

SpecEvt == Init /\ [][NextEvt]_vars

----------------------------------------------------------------------------
(* A single-consumer channel and a multicast channel side by side *)

NextBoth == NextChan \/ NextMc

SpecBoth == (\E kind \in BufKinds : InitWith(kind)) /\ [][NextBoth]_vars

----------------------------------------------------------------------------
(* Sagas run on one store: the host runs root sagas, dispatches actions,  *)
(* cancels root tasks and calls the callbacks of cps functions.           *)

MaxSteps == 3
MaxRoots == 2

Roots == {"onA", "onB", "relayA", "guarded", "forkInCleanup", "cleanupThrows",
          "parent", "parentLate", "grand", "joiner"}
Types == {"A", "B", "X"}

\* runSaga: the root proc, with no continuation
runSaga(s, saga) ==
  LET s1 == Call(s, <<"proc", saga, Null, 0>>)
  IN [s1 EXCEPT !.pobs.roots = Append(@, Len(s.procs) + 1)]

\* runSaga(saga), with saga one of sagas
RunSagaOf(sagas) ==
  /\ steps < MaxSteps
  /\ Len(pobs.roots) < MaxRoots
  /\ \E saga \in sagas :
       /\ saga = "joinFirst" => pobs.roots # <<>>
       /\ Commit(runSaga(St, saga))

\* store.dispatch(action), with an action of one of types
DispatchOf(types) ==
  /\ steps < MaxSteps
  /\ \E type \in types : Commit(Call(St, <<"middleware", Act(type)>>))

RunSaga == RunSagaOf(Roots)

\* store.dispatch(action)
Dispatch == DispatchOf(Types)

\* task.cancel() on a root task
CancelTask ==
  /\ steps < MaxSteps
  /\ \E i \in 1..Len(pobs.roots) : Commit(Call(St, <<"cancel", pobs.roots[i]>>))

\* the host calls the callback a cps function was given
CpsCallback ==
  /\ steps < MaxSteps
  /\ \E e \in 1..Len(effects), isErr \in BOOLEAN :
       /\ effects[e].ins.op = "cps"
       /\ Commit(cpsCb(St, e, isErr))

Next == RunSaga \/ Dispatch \/ CancelTask \/ CpsCallback

Spec == Init /\ [][Next]_vars

----------------------------------------------------------------------------
(* Sagas that fork, spawn, join and cancel *)

TreeRoots == {"spawnThrower", "spawnLate", "forkWait", "forkThenTake", "takeFork", "nest",
              "forkInCleanup", "forkInCleanupW", "tree", "joiner", "joinCancelled",
              "joinFirst", "finaliser", "onCleanup", "family", "selfCancel", "selfCancelTry"}
TreeTypes == {"A", "B", "X", "GO"}

RunTree == RunSagaOf(TreeRoots)

DispatchTree == DispatchOf(TreeTypes)

NextTree == RunTree \/ DispatchTree \/ CancelTask

SpecTree == Init /\ [][NextTree]_vars

----------------------------------------------------------------------------
(* Sagas whose fork queue reports to the parent *)

QueueRoots == {"parent", "parentLate", "grand", "forkWait", "forkThenTake", "nest",
               "tree", "spawnLate", "abortInCleanup", "abortWaits"}
QueueTypes == {"A", "B", "X"}

RunQueue == RunSagaOf(QueueRoots)

DispatchQueue == DispatchOf(QueueTypes)

NextQueue == RunQueue \/ DispatchQueue \/ CancelTask

SpecQueue == Init /\ [][NextQueue]_vars

----------------------------------------------------------------------------
(* Sagas that are cancelled while a put they yielded waits in the queue *)

PutRoots == {"putThenFail", "putThenThrow", "putThenCancel", "putLog", "onA", "onB",
             "forkThenTake"}
PutTypes == {"A", "B"}

RunPut == RunSagaOf(PutRoots)

DispatchPut == DispatchOf(PutTypes)

NextPut == RunPut \/ DispatchPut \/ CancelTask

SpecPut == Init /\ [][NextPut]_vars

----------------------------------------------------------------------------
(* The scheduler shared by the host's tasks and locks and by sagas that fork *)

LockRoots == {"parent", "spawnThrower", "putThenFail", "forkThenTake", "onA"}
LockTypes == {"A", "B"}

RunLock == RunSagaOf(LockRoots)

DispatchLock == DispatchOf(LockTypes)

NextLock == SchedAsap \/ SchedSuspend \/ SchedFlush \/ RunLock \/ DispatchLock

SpecLock == Init /\ [][NextLock]_vars

----------------------------------------------------------------------------
(* Sagas that set and get properties of their context *)

CtxRoots == {"ctxParent", "ctxSpawner", "ctxGrand", "ctxReader"}
CtxTypes == {"A", "B", "X"}

RunCtx == RunSagaOf(CtxRoots)

DispatchCtx == DispatchOf(CtxTypes)

NextCtx == RunCtx \/ DispatchCtx \/ CancelTask

SpecCtx == Init /\ [][NextCtx]_vars

----------------------------------------------------------------------------
(* Sagas that yield a race *)

RaceRoots == {"raceXY", "raceCps", "raceOne", "raceJoin", "raceSync"}
RaceTypes == {"A", "X", "Y"}

RunRace == RunSagaOf(RaceRoots)

DispatchRace == DispatchOf(RaceTypes)

\* store.dispatch(END)
DispatchEnd ==
  /\ steps < MaxSteps
  /\ Commit(Call(St, <<"middleware", END>>))

NextRace == RunRace \/ DispatchRace \/ DispatchEnd \/ CancelTask \/ CpsCallback

SpecRace == Init /\ [][NextRace]_vars

----------------------------------------------------------------------------
(* Sagas that yield an all *)

AllRoots == {"allXY", "allArr", "allEmptyObj", "allEmptyArr", "allCps", "allSync",
             "allJoinFirst", "allJoinLast", "allErrFirst"}
AllTypes == {"X", "Y"}

RunAll == RunSagaOf(AllRoots)

DispatchAll == DispatchOf(AllTypes)

NextAll == RunAll \/ DispatchAll \/ DispatchEnd \/ CancelTask \/ CpsCallback

SpecAll == Init /\ [][NextAll]_vars

----------------------------------------------------------------------------
(* Sagas that yield an actionChannel *)

ChanRoots == {"acLoop", "acLate", "acWait", "putTU"}
ChanTypes == {"T", "U", "GO"}

RunChan == RunSagaOf(ChanRoots)

DispatchChan == DispatchOf(ChanTypes)

NextAct == RunChan \/ DispatchChan \/ DispatchEnd \/ CancelTask

SpecAct == Init /\ [][NextAct]_vars

----------------------------------------------------------------------------
(* C1: no task handed to asap starts while another scheduled task is on   *)
(* the stack, and the semaphore is at least 1 for as long as a task runs. *)
C1_NoNestedExec == ~sobs.nested /\ ~sobs.lowSem

\* two tasks ran in one external call, the second one enqueued by the first
C1_Witness ==
  /\ Len(sobs.executed) >= 2
  /\ steps = 1
  /\ ~sobs.nested

(* C4: on a single-consumer channel, whatever was called and whatever the *)
(* callbacks called back, a closed channel has no takers, a channel with  *)
(* takers has an empty buffer, and checkForbiddenStates never threw.      *)
C4_ForbiddenStates ==
  /\ ~cobs.forbidden
  /\ chans[1].closed => chans[1].takers = <<>>
  /\ chans[1].takers # <<>> => chans[1].buffer = <<>>

\* a callback was invoked and registered a taker from inside, on a channel
\* that was then closed
C4_Witness ==
  /\ chans[1].closed
  /\ Len(cobs.delivered) >= 2
  /\ cobs.nextCb >= 4

\* the takers a put has to invoke: those of its entry array that accept the input
RECURSIVE Accepting(_, _)
Accepting(takers, input) ==
  IF takers = <<>> THEN <<>>
  ELSE (IF Matches(Head(takers).pat, input) THEN <<Head(takers).rid>> ELSE <<>>)
       \o Accepting(Tail(takers), input)

(* C5: every put of a value other than END on an open multicast channel   *)
(* invoked exactly the takers that were registered when it was entered    *)
(* and accept the value, in the order of registration, each once; a taker *)
(* registered while it ran was not invoked by it.                         *)
C5_SnapshotInvoked ==
  \A pid \in 1..Len(mobs.puts) :
    mobs.puts[pid].invoked = Accepting(mobs.puts[pid].entry, mobs.puts[pid].input)

\* a put invoked taker 1, whose callback registered taker 2; taker 2
\* accepts the input and was not invoked
C5_Witness ==
  /\ Len(mobs.puts) = 1
  /\ mobs.puts[1].invoked = <<1>>
  /\ Len(mobs.puts[1].entry) = 1
  /\ \E i \in 1..Len(NextTakers(mc)) :
       /\ NextTakers(mc)[i].rid = 2
       /\ Matches(NextTakers(mc)[i].pat, mobs.puts[1].input)
  /\ mobs.fired = << <<1, mobs.puts[1].input>> >>

(* C6: a taker of a multicast channel is invoked at most once for one     *)
(* registration, over all puts and closes.                                *)
C6_FiresAtMostOnce ==
  \A i, j \in 1..Len(mobs.fired) : mobs.fired[i][1] = mobs.fired[j][1] => i = j

----------------------------------------------------------------------------
(* Observations read by the properties of the sagas *)

\* where proc p logged ev
Pos(p, ev) == {i \in 1..Len(pobs.log) : pobs.log[i] = <<p, ev>>}

\* the procs whose take the put numbered pid invoked
Woken(pid) ==
  LET put == mobs.puts[pid] IN
  {effects[put.entry[i].e].p :
     i \in {n \in 1..Len(put.entry) :
              \E m \in 1..Len(put.invoked) : put.invoked[m] = put.entry[n].rid}}

C3_DeliveriesDoNotNest == ~mobs.early

\* a handler woken by one input called store.dispatch with another, which
\* was delivered to a taker
C3_Witness ==
  \E pid \in 1..Len(mobs.puts) :
    /\ mobs.puts[pid].origin # 0
    /\ mobs.puts[pid].by = 0
    /\ mobs.puts[pid].invoked # <<>>
    /\ mobs.puts[mobs.puts[pid].origin].invoked # <<>>

(* C7: for every effect digestEffect ran, the callback cb was invoked at  *)
(* most once, never after cb.cancel had run, and cb.cancel never called   *)
(* the cancel function of the effect after cb had been invoked.           *)
C7_CompletionAndCancelExclusive ==
  \A e \in 1..Len(effects) :
    /\ effects[e].nCb <= 1
    /\ ~effects[e].lateCb
    /\ ~effects[e].lateHook

\* a cps effect was cancelled, its cancel function called, and the host
\* called its callback afterwards
C7_Witness ==
  \E e \in 1..Len(effects) :
    /\ effects[e].ins.op = "cps"
    /\ effects[e].cancelRan
    /\ effects[e].nHook = 1
    /\ effects[e].ignored >= 1
    /\ effects[e].nCb = 0

(* C8: when cancel() was called on a running task that was blocked on a   *)
(* pending effect, the cancel function of that effect was called exactly  *)
(* once, the iterator was resumed with TASK_CANCEL at most once, and the  *)
(* completion of the effect never resumed it.                             *)
C8_CancelReachesPendingEffect ==
  \A p \in 1..Len(procs) :
    procs[p].pendAtCancel # 0 =>
      /\ effects[procs[p].pendAtCancel].nHook = 1
      /\ procs[p].cancelResumes <= 1
      /\ effects[procs[p].pendAtCancel].nCb = 0

(* C9: end is called at most once for every task, so that its cont is     *)
(* invoked at most once.                                                  *)
C9_EndReachedOnce ==
  \A p \in 1..Len(procs) : Len(procs[p].ends) <= 1 /\ procs[p].conts <= 1

\* the failure f of a member of the queue of p was propagated: p is aborted,
\* end was called once with the error, and the other members are cancelled
Propagated(p, f) ==
  /\ procs[p].isAborted
  /\ Cardinality({i \in 1..Len(procs[p].ends) :
                    procs[p].ends[i] = [v |-> f.err, isErr |-> TRUE]}) = 1
  /\ \A i \in 1..Len(f.members) :
       LET m == f.members[i] IN
       \/ m = f.m
       \/ IF m = 0 THEN procs[p].mainTask.isCancelled
          ELSE ~procs[m].isRunning /\ procs[m].isCancelled

----------------------------------------------------------------------------
(* Observations read by the properties of forks and spawns *)

\* the tasks a spawn effect created
Spawned ==
  {c \in 1..Len(procs) :
     procs[c].parentEffectId # 0 /\ effects[procs[c].parentEffectId].ins.detached}

\* the proc that yielded the fork or spawn effect which created c
Creator(c) == effects[procs[c].parentEffectId].p

(* C11: a spawned task is in no fork queue; its failure is recorded in no  *)
(* queue, is reported to onError once and leaves the spawner not aborted,  *)
(* which ends once with the value its main task returned; and the spawned  *)
(* task is never cancelled, also when its spawner is.                      *)
C11_SpawnIsolated ==
  /\ \A p \in 1..Len(procs) : \A i \in 1..Len(procs[p].tasks) :
       procs[p].tasks[i] \notin Spawned
  /\ \A c \in Spawned :
       /\ procs[c].parent = 0
       /\ ~procs[c].isCancelled
       /\ procs[c].isRunning \/ procs[c].isAborted
       /\ procs[c].isAborted =>
            /\ procs[c].reported = 1
            /\ ~procs[Creator(c)].isAborted
            /\ \A a \in 1..Len(procs[Creator(c)].failed) :
                 procs[Creator(c)].failed[a].m # c
            /\ (procs[Creator(c)].returned # <<>> /\ ~procs[Creator(c)].isCancelled) =>
                 procs[Creator(c)].ends = <<[v |-> Num("42"), isErr |-> FALSE]>>

\* a saga spawned a task that threw at once, and returned 42; another was
\* cancelled while the task it had spawned went on running
C11_Witness ==
  /\ \E c \in Spawned :
       /\ procs[c].isAborted /\ procs[c].reported = 1
       /\ procs[Creator(c)].saga = "spawnThrower"
       /\ procs[Creator(c)].ends = <<[v |-> Num("42"), isErr |-> FALSE]>>
  /\ \E c \in Spawned :
       /\ procs[c].isRunning
       /\ procs[Creator(c)].isCancelled /\ ~procs[Creator(c)].isRunning

(* C12: a task that is neither aborted nor cancelled has ended at most    *)
(* once, with the value its main task returned, and when end was called   *)
(* its main task had returned and every fork attached to it had           *)
(* terminated.                                                            *)
C12_CompletesWhenAllTerminated ==
  \A p \in 1..Len(procs) :
    (~procs[p].isAborted /\ ~procs[p].isCancelled /\ procs[p].ends # <<>>) =>
      /\ ~procs[p].openAtEnd
      /\ Len(procs[p].returned) = 1
      /\ procs[p].ends = <<[v |-> procs[p].returned[1], isErr |-> FALSE]>>
      /\ \A m \in 1..Len(procs) : procs[m].parent = p => ~procs[m].isRunning

\* the main task returned 42 while a fork was blocked on a take; the fork
\* finished afterwards, and then the task ended with 42
C12_Witness ==
  \E p, m \in 1..Len(procs) :
    /\ procs[p].saga = "forkWait" /\ procs[m].parent = p
    /\ procs[p].ends = <<[v |-> Num("42"), isErr |-> FALSE]>>
    /\ \E i \in Pos(p, "main-done"), j \in Pos(m, "B-end") : i < j

\* the put effects the task c yielded
PutsOf(c) == {e \in 1..Len(effects) : effects[e].p = c /\ effects[e].ins.op = "put"}

(* C13: no put effect that a forked task yielded before its fork effect   *)
(* had called back was dispatched before the fork effect had called back  *)
(* and the forking saga had run on to its next yield; and a saga that     *)
(* takes B right after forking a task which puts B at once has received   *)
(* that B.                                                                *)
C13_ForkIsAtomic ==
  /\ \A e \in 1..Len(effects) : ~effects[e].early
  /\ \A c \in 1..Len(procs) :
       (procs[c].saga = "putB" /\ procs[c].parentEffectId # 0) =>
         \A e \in PutsOf(c) :
           (effects[e].firstSlice /\ effects[e].nCb = 1) => Pos(Creator(c), "got-B") # {}

\* a saga took A, forked a task that put B in its first slice, and then
\* took that B; another did the same at its start, run by the host while
\* no scheduled task was running
C13_Witness ==
  /\ \E c \in 1..Len(procs) :
       /\ procs[c].parentEffectId # 0 /\ procs[Creator(c)].saga = "takeFork"
       /\ \E e \in PutsOf(c) : effects[e].firstSlice /\ effects[e].nCb = 1
       /\ Pos(Creator(c), "got-B") # {}
  /\ \E c \in 1..Len(procs) :
       /\ procs[c].parentEffectId # 0 /\ procs[Creator(c)].saga = "forkThenTake"
       /\ \E e \in PutsOf(c) : effects[e].firstSlice /\ effects[e].nCb = 1
       /\ Pos(Creator(c), "got-B") # {}

(* C14: when a task has been cancelled and has ended, none of the forks   *)
(* that were attached to it is running.                                   *)
C14_SubtreeCancelled ==
  \A p \in 1..Len(procs) :
    (procs[p].isCancelled /\ ~procs[p].isRunning) =>
      \A m \in 1..Len(procs) : procs[m].parent = p => ~procs[m].isRunning

\* the join effects
Joins == {e \in 1..Len(effects) : effects[e].ins.op = "join"}

(* C15: a join on a task that has been cancelled, issued before or after  *)
(* the cancellation and not cancelled itself, was completed once with     *)
(* TASK_CANCEL and not with an error, and the main task of the joining    *)
(* saga is marked cancelled.                                              *)
C15_JoinersCancelled ==
  \A e \in Joins :
    LET t == effects[e].target IN
    (procs[t].isCancelled /\ ~procs[t].isRunning /\ ~effects[e].cancelRan) =>
      /\ effects[e].res = <<[v |-> TASK_CANCEL, isErr |-> FALSE]>>
      /\ procs[effects[e].p].mainTask.isCancelled
      /\ procs[effects[e].p].cancelResumes >= 1

\* the state after cancel() has been called on task p in the current state
AfterCancel(p) == Call(St, <<"cancel", p>>)

(* C16: in every state, cancel() on a task that has terminated or has     *)
(* been cancelled throws nothing and changes nothing: no task, no effect, *)
(* no channel, no scheduled task, no log entry.                           *)
C16_CancelIsIdempotent ==
  \A p \in 1..Len(procs) :
    (~procs[p].isRunning \/ procs[p].isCancelled) =>
      /\ ~Threw(AfterCancel(p))
      /\ AfterCancel(p).procs = procs
      /\ AfterCancel(p).effects = effects
      /\ AfterCancel(p).mc = mc
      /\ AfterCancel(p).mobs = mobs
      /\ AfterCancel(p).queue = queue
      /\ AfterCancel(p).semaphore = semaphore
      /\ AfterCancel(p).sobs = sobs
      /\ AfterCancel(p).pobs.log = pobs.log
      /\ AfterCancel(p).pobs.onError = pobs.onError

\* cancel() was called on a task that had been cancelled while it was
\* blocked on an effect
C16_Witness ==
  \E p \in pobs.idle :
    /\ procs[p].pendAtCancel # 0
    /\ procs[p].ends = <<[v |-> TASK_CANCEL, isErr |-> FALSE]>>
    /\ \E i \in 1..Len(pobs.roots) : pobs.roots[i] = p

\* the effect of the first yield of proc p that has the instruction ins
EffectOf(p, ins) ==
  LET es == {e \in 1..Len(effects) : effects[e].p = p /\ effects[e].ins = ins}
  IN IF es = {} THEN 0 ELSE CHOOSE e \in es : \A f \in es : e <= f

\* the sagas that had yielded take(CLEANUP) when effect e was created and
\* have not been cancelled
WaitingAt(e) ==
  {q \in 1..Len(procs) :
     /\ procs[q].saga = "onCleanup" /\ ~procs[q].isCancelled
     /\ EffectOf(q, ITake({"CLEANUP"})) \in 1..e}

\* the puts of CLEANUP that the finally block of a saga cancelled no later
\* than p issued
CleanupsUpTo(p) ==
  {pid \in 1..Len(mobs.puts) :
     /\ mobs.puts[pid].input = [Act("CLEANUP") EXCEPT !.saga = TRUE]
     /\ mobs.puts[pid].by # 0
     /\ EffectOf(mobs.puts[pid].by, ICancelled) \in 1..EffectOf(p, ICancelled)}

(* C17: when a saga blocked on take(GO) inside a try block has been        *)
(* cancelled, its finally block has run, cancelled() has answered true     *)
(* there, its put of CLEANUP has been dispatched, and every saga that had  *)
(* yielded take(CLEANUP) before has been resumed with CLEANUP, by this put *)
(* if it was still waiting.                                                *)
C17_CleanupAfterCancel ==
  \A p \in 1..Len(procs) :
    (procs[p].saga = "finaliser" /\ procs[p].pendAtCancel # 0
       /\ effects[procs[p].pendAtCancel].ins = ITake({"GO"})) =>
      /\ EffectOf(p, ICancelled) # 0
      /\ effects[EffectOf(p, ICancelled)].res = <<[v |-> Bool(TRUE), isErr |-> FALSE]>>
      /\ Pos(p, "cancelled") # {}
      /\ EffectOf(p, IPut("CLEANUP")) # 0
      /\ effects[EffectOf(p, IPut("CLEANUP"))].nCb = 1
      /\ \A q \in WaitingAt(EffectOf(p, ICancelled)) :
           /\ effects[EffectOf(q, ITake({"CLEANUP"}))].res
                = <<[v |-> [Act("CLEANUP") EXCEPT !.saga = TRUE], isErr |-> FALSE]>>
           /\ \E pid \in CleanupsUpTo(p) : q \in Woken(pid)
           /\ Pos(q, "saw-CLEANUP") # {}

\* a saga was waiting for CLEANUP when another, blocked on take(GO), was
\* cancelled, and it saw the CLEANUP put by the finally block
C17_Witness ==
  \E p, q \in 1..Len(procs) :
    /\ procs[p].saga = "finaliser" /\ procs[p].pendAtCancel # 0
    /\ procs[p].ends = <<[v |-> TASK_CANCEL, isErr |-> FALSE]>>
    /\ q \in WaitingAt(EffectOf(p, ICancelled))
    /\ \E pid \in CleanupsUpTo(p) : mobs.puts[pid].by = p /\ q \in Woken(pid)
    /\ \E i \in Pos(p, "cancelled"), j \in Pos(q, "saw-CLEANUP") : i < j

\* the cancel effects, all of them cancel(SELF_CANCELLATION)
SelfCancels == {e \in 1..Len(effects) : effects[e].ins.op = "cancel"}

(* C18: a saga that has yielded cancel() is cancelled and not running; it *)
(* has ended once, with TASK_CANCEL, which its continuation, if it has    *)
(* one, has received once; its iterator was resumed once, through         *)
(* return(TASK_CANCEL), and never by the completion of the cancel effect: *)
(* no statement after the yield has run.                                  *)
C18_SelfCancelTerminates ==
  \A e \in SelfCancels :
    LET p == effects[e].p IN
    /\ procs[p].isCancelled /\ ~procs[p].isRunning /\ ~procs[p].isAborted
    /\ procs[p].ends = <<[v |-> TASK_CANCEL, isErr |-> FALSE]>>
    /\ procs[p].conts = IF procs[p].parentEffectId = 0 THEN 0 ELSE 1
    /\ procs[p].cancelResumes = 1
    /\ procs[p].returned = <<TASK_CANCEL>>
    /\ effects[e].nCb = 0
    /\ Pos(p, "after-cancel") = {}

\* a root saga yielded cancel() inside a try block and ran its finally
\* block; a forked saga yielded cancel() after a take
C18_Witness ==
  /\ \E e \in SelfCancels :
       /\ procs[effects[e].p].saga = "selfCancelTry"
       /\ Pos(effects[e].p, "cleanup") # {}
  /\ \E e \in SelfCancels :
       /\ procs[effects[e].p].saga = "selfCancel"
       /\ procs[effects[e].p].parent # 0
       /\ procs[effects[e].p].conts = 1

----------------------------------------------------------------------------
(* Observations read by the properties of race *)

Races == {e \in 1..Len(effects) : effects[e].ins.op = "race"}

\* the effects digested for the children of the race e
KidsOf(e) == {f \in 1..Len(effects) : effects[f].cb.k = "chCb" /\ effects[f].cb.e = e}

\* a completion that decides a race: an error, or a value that is not END,
\* CHANNEL_END or TASK_CANCEL
Decides(a) == a.isErr \/ a.v.k \notin {"END", "CHANNEL_END", "TASK_CANCEL"}

\* what the race e has to answer for the completion a of a child
Outcome(e, a) ==
  IF a.isErr THEN [v |-> a.v, isErr |-> TRUE]
  ELSE [v |-> Obj(effects[e].ins.kids[a.i].key, a.v), isErr |-> FALSE]

\* the effect f has a taker registered on the standard channel
HasTaker(f) ==
  \E n \in 1..Len(NextTakers(mc)) :
    NextTakers(mc)[n].k = "takeCb" /\ NextTakers(mc)[n].e = f

C20_LoneChildRace ==
  \A e \in Races :
    Len(effects[e].ins.kids) = 1 =>
      /\ effects[e].arrivals = <<>> =>
           /\ effects[e].nCb = 0
           /\ ~effects[e].cancelRan =>
                (~effects[e].settled /\ Pending(St, effects[e].p) = e
                   /\ Pos(effects[e].p, "raced") = {})
      /\ effects[e].cancelRan =>
           \A f \in KidsOf(e) : effects[f].cancelRan /\ effects[f].nHook = 1

\* the saga blocked on race({ a: cps(fn) }) was cancelled and the cancel
\* function fn had installed was called
C20_Witness ==
  \E e \in Races :
    /\ Len(effects[e].ins.kids) = 1
    /\ effects[e].cancelRan /\ effects[e].arrivals = <<>> /\ effects[e].nCb = 0
    /\ \E f \in KidsOf(e) : effects[f].ins.op = "cps" /\ effects[f].nHook = 1
    /\ procs[effects[e].p].ends = <<[v |-> TASK_CANCEL, isErr |-> FALSE]>>

----------------------------------------------------------------------------
(* Observations of the all effects *)

Alls == {e \in 1..Len(effects) : effects[e].ins.op = "all"}

\* the effects digested as children of the all effect e
AllKidsOf(e) == {f \in 1..Len(effects) : effects[f].cb.k = "allCb" /\ effects[f].cb.e = e}

\* the completion a of a child is an error, END or a cancel value
Fails(a) == a.isErr \/ a.v.k \in {"END", "CHANNEL_END", "TASK_CANCEL"}

\* the completions of children of e that fail, by their place in arrivals
Failures(e) == {n \in 1..Len(effects[e].arrivals) : Fails(effects[e].arrivals[n])}

(* C21: when a child of an all effect has completed with an error, END or *)
(* a cancel value, the all effect has answered once, with the outcome of  *)
(* the first such child, and no child of it is left pending: every child  *)
(* is settled and none has a taker registered on the standard channel.    *)
C21_AllCancelsSiblings ==
  \A e \in Alls :
    Failures(e) # {} =>
      LET a == effects[e].arrivals[CHOOSE n \in Failures(e) : \A m \in Failures(e) : n <= m]
      IN /\ effects[e].res = <<[v |-> a.v, isErr |-> a.isErr]>>
         /\ \A f \in AllKidsOf(e) : effects[f].settled /\ ~HasTaker(f)

\* the same, for the all effects whose first child to fail was not the
\* first child while a later child was still to be digested
C21_LaterSiblingsExcepted ==
  \A e \in Alls :
    (Failures(e) # {} /\ \E f \in AllKidsOf(e) : effects[f].nCb = 0 /\ effects[f].cancelRan) =>
      LET a == effects[e].arrivals[CHOOSE n \in Failures(e) : \A m \in Failures(e) : n <= m]
      IN /\ effects[e].res = <<[v |-> a.v, isErr |-> a.isErr]>>
         /\ \A f \in AllKidsOf(e) : effects[f].settled /\ ~HasTaker(f)

\* the value an all effect has to answer when the children have completed
\* with the values in arrivals
Gathered(e) ==
  LET ins == effects[e].ins
      arr == effects[e].arrivals
      At(i) == arr[CHOOSE n \in 1..Len(arr) : arr[n].i = i].v
      keys == {ins.kids[i].key : i \in 1..Len(ins.kids)}
      Of(key) == CHOOSE i \in 1..Len(ins.kids) : ins.kids[i].key = key
  IN IF ins.isArray THEN Array([i \in 1..Len(ins.kids) |-> At(i)])
     ELSE Object([key \in keys |-> At(Of(key))])

(* C22: an all effect has answered with a result exactly when every child *)
(* has succeeded; it has answered once, with an array for an array and an *)
(* object for an object, holding under each key the result of the child   *)
(* of that key, in whatever order the children completed; with no child   *)
(* it has answered [] or {} inside runAllEffect.                          *)
C22_AllGathersResults ==
  \A e \in Alls :
    LET arr == effects[e].arrivals
        n == Len(effects[e].ins.kids)
        allOk == \A i \in 1..n : \E m \in 1..Len(arr) : arr[m].i = i /\ ~Fails(arr[m])
    IN /\ effects[e].nCb <= 1
       /\ allOk => effects[e].res = <<[v |-> Gathered(e), isErr |-> FALSE]>>
       /\ ~allOk => \A m \in 1..Len(effects[e].res) :
                      effects[e].res[m].isErr
                        \/ effects[e].res[m].v.k \in {"END", "CHANNEL_END", "TASK_CANCEL"}

\* all({ x: take(X), y: take(Y) }) answered { x: X, y: Y } after Y and then
\* X were dispatched
C22_Witness ==
  \E e \in Alls :
       /\ procs[effects[e].p].saga = "allXY"
       /\ effects[e].arrivals = <<[i |-> 2, v |-> Act("Y"), isErr |-> FALSE],
                                  [i |-> 1, v |-> Act("X"), isErr |-> FALSE]>>
       /\ effects[e].res = <<[v |-> Object([key \in {"x", "y"} |->
                                              IF key = "x" THEN Act("X") ELSE Act("Y")]),
                              isErr |-> FALSE]>>
       /\ Pos(effects[e].p, "all-done") # {}

----------------------------------------------------------------------------
(* Round trips on the single-consumer channel *)

\* the state after put(Act(type)) for each type of types, in order
RECURSIVE PutEach(_, _)
PutEach(s, types) ==
  IF types = <<>> THEN s
  ELSE PutEach(Call(s, <<"chan_put", 1, Act(Head(types))>>), Tail(types))

\* the state after n calls of take, each with a new callback that does nothing
RECURSIVE TakeTimes(_, _)
TakeTimes(s, n) ==
  IF n = 0 THEN s
  ELSE TakeTimes(Call([s EXCEPT !.cobs.nextCb = @ + 1], <<"chan_take", 1, NewCb(s, <<>>)>>),
                 n - 1)

\* the deliveries of values to new callbacks, one each, after those made so far
Delivering(values) ==
  cobs.delivered \o [i \in 1..Len(values) |-> <<cobs.nextCb + i - 1, values[i]>>]

\* the channel is open, has no pending taker and its buffer is of one of kinds
OpenIdle(kinds) ==
  chans[1].kind \in kinds /\ ~chans[1].closed /\ chans[1].takers = <<>>

\* put(x) followed by take(cb) invokes cb with x
RoundTrip(kinds) ==
  (OpenIdle(kinds) /\ chans[1].buffer = <<>>) =>
    \A x \in {"x", "y"} :
      LET s2 == TakeTimes(PutEach(St, <<x>>), 1)
      IN ~Threw(s2) /\ s2.cobs.delivered = Delivering(<<Act(x)>>)

(* C23 as stated: on an open channel with no pending taker and an empty   *)
(* buffer, whatever the buffer, put(x) followed by take(cb) invokes cb     *)
(* with x.                                                                 *)
C23_RoundTripAnyBuffer == RoundTrip(BufKinds)

(* C23: on an open channel with no pending taker and an empty buffer that *)
(* is not of kind none, put(x) followed by take(cb) invokes cb with x; on *)
(* an open channel with no pending taker and an expanding buffer, put(x)  *)
(* and put(y) followed by takes deliver what the buffer held, then x,     *)
(* then y, one value to each take in that order, and the next take waits. *)
C23_RoundTrip ==
  /\ RoundTrip(BufKinds \ {"none"})
  /\ OpenIdle({"expanding"}) =>
       \A x, y \in {"x", "y"} :
         LET held == chans[1].buffer
             s2 == TakeTimes(PutEach(St, <<x, y>>), Len(held) + 3)
         IN /\ ~Threw(s2)
            /\ s2.cobs.delivered = Delivering(held \o <<Act(x), Act(y)>>)
            /\ Len(s2.chans[1].takers) = 1

\* x and then y were put on an expanding buffer and a take was delivered x
C23_Witness ==
  /\ chans[1].kind = "expanding"
  /\ chans[1].buffer = <<Act("y")>>
  /\ cobs.delivered = << <<1, Act("x")>> >>
  /\ steps = 3

----------------------------------------------------------------------------
(* Takes on closed channels *)

\* no taker of the multicast channel has the registration number rid
Unregistered(m, rid) ==
  \A h \in {m.currentTakers, m.nextTakers} :
    \A i \in 1..Len(m.heap[h]) : m.heap[h][i].rid # rid

(* C24: take on a closed single-consumer channel whose buffer is empty,   *)
(* and take on a multicast channel closed by close or by put(END), calls  *)
(* the callback with END before it returns and registers no taker,        *)
(* whatever the callback does.                                            *)
C24_TakeOnClosedYieldsEnd ==
  /\ (chans[1].closed /\ chans[1].buffer = <<>>) =>
       \A script \in CbScripts1 :
         LET s1 == Call([St EXCEPT !.cobs.nextCb = @ + 1],
                        <<"chan_take", 1, NewCb(St, script)>>)
         IN /\ ~Threw(s1)
            /\ Len(s1.cobs.delivered) > Len(cobs.delivered)
            /\ s1.cobs.delivered[Len(cobs.delivered) + 1] = <<cobs.nextCb, END>>
            /\ s1.chans[1].takers = <<>>
  /\ mc.closed =>
       \A pat \in Pats, script \in McScripts1 :
         LET s1 == Call([St EXCEPT !.mobs.nextCb = @ + 1],
                        <<"mc_take", NewMcCb(St, pat, script)>>)
         IN /\ ~Threw(s1)
            /\ Len(s1.mobs.fired) > Len(mobs.fired)
            /\ s1.mobs.fired[Len(mobs.fired) + 1] = <<mobs.nextCb, END>>
            /\ Unregistered(s1.mc, mobs.nextCb)
            /\ NextTakers(s1.mc) = NextTakers(mc)
  /\ \A n \in 1..Len(cobs.ended) :
       /\ \E i \in 1..Len(cobs.delivered) : cobs.delivered[i] = <<cobs.ended[n], END>>
       /\ \A i \in 1..Len(chans[1].takers) : chans[1].takers[i].rid # cobs.ended[n]
  /\ \A n \in 1..Len(mobs.ended) :
       /\ \E i \in 1..Len(mobs.fired) : mobs.fired[i] = <<mobs.ended[n], END>>
       /\ Unregistered(mc, mobs.ended[n])

\* both channels were closed, and a take on the closed multicast channel
\* was answered END
C24_Witness ==
  /\ chans[1].closed /\ chans[1].takers = <<>>
  /\ mc.closed /\ mobs.ended = <<1>> /\ mobs.fired = << <<1, END>> >>
  /\ NextTakers(mc) = <<>>
  /\ steps = 3

----------------------------------------------------------------------------
(* Observations of the action channels *)

ActionChannels == {e \in 1..Len(effects) : effects[e].ins.op = "actionChannel"}

\* the inputs accepted by pat among the puts on the standard channel
\* numbered from n on, in the order of the puts
RECURSIVE MatchesFrom(_, _)
MatchesFrom(pat, n) ==
  IF n > Len(mobs.puts) THEN <<>>
  ELSE (IF Matches(pat, mobs.puts[n].input) THEN <<mobs.puts[n].input>> ELSE <<>>)
       \o MatchesFrom(pat, n + 1)

\* what the standard channel has delivered to the taker of the action
\* channel effect e: the matching inputs and, once it is closed, END
Mirrored(e) ==
  MatchesFrom(effects[e].ins.pat, effects[e].since + 1)
    \o (IF mc.closed THEN <<END>> ELSE <<>>)

\* the takes on the single-consumer channel c, in the order they were yielded
TakesOn(c) ==
  {f \in 1..Len(effects) :
     effects[f].ins.op = "take" /\ effects[f].ins.chan /\ effects[f].target = c}

\* the values the takes on channel c numbered from f on were answered with
RECURSIVE TakenFrom(_, _)
TakenFrom(c, f) ==
  IF f > Len(effects) THEN <<>>
  ELSE (IF f \in TakesOn(c) /\ effects[f].res # <<>>
        THEN <<IF effects[f].res[1].v = CHANNEL_END THEN END ELSE effects[f].res[1].v>>
        ELSE <<>>)
       \o TakenFrom(c, f + 1)

(* C25: for every channel created by actionChannel(p), the values its     *)
(* takes were answered with, followed by the values in its buffer, are    *)
(* the inputs matching p put on the standard channel after the channel    *)
(* was created, each once and in the order of the puts (followed by END   *)
(* once the standard channel is closed); each take was answered once,     *)
(* and a take that was not answered nor cancelled found the buffer empty  *)
(* and waits as a taker of the channel.                                   *)
C25_ActionChannelMirrors ==
  \A e \in ActionChannels :
    LET c == effects[e].target IN
    /\ effects[e].res = <<[v |-> Chan(c), isErr |-> FALSE]>>
    /\ TakenFrom(c, 1) \o chans[c].buffer = Mirrored(e)
    /\ \A f \in TakesOn(c) :
         /\ effects[f].nCb <= 1
         /\ (effects[f].nCb = 0 /\ ~effects[f].cancelRan) =>
              /\ chans[c].buffer = <<>>
              /\ \E i \in 1..Len(chans[c].takers) : chans[c].takers[i].e = f

\* T, V, U and T were put before the first take on a channel of T and U:
\* three takes were answered T, U and T and the fourth one waits
C25_Witness ==
  \E e \in ActionChannels :
    LET c == effects[e].target
        T == [Act("T") EXCEPT !.saga = TRUE]
        U == [Act("U") EXCEPT !.saga = TRUE]
    IN /\ procs[effects[e].p].saga = "acLate"
       /\ TakenFrom(c, 1) = <<T, U, T>>
       /\ Len(mobs.puts) = 4
       /\ chans[c].buffer = <<>>
       /\ Len(chans[c].takers) = 1
       /\ Pos(effects[e].p, "got") = {}

----------------------------------------------------------------------------
(* The two ways of the standard channel's put *)

Flagged(type) == [Act(type) EXCEPT !.saga = TRUE]

(* C26: put on the standard channel of an input that carries the flag     *)
(* has invoked the takers that accept it when it returns, also when the   *)
(* scheduler is suspended, and runs inside the task that called it; put   *)
(* of an input without the flag hands a task to asap: while the scheduler *)
(* is suspended it invokes no taker, and its delivery runs as a scheduled *)
(* task of its own, after the task that called put has returned.          *)
C26_StdPutDelivery ==
  /\ ~mc.closed =>
       \A type \in Types, locks \in {0, 1} :
         LET s0 == [St EXCEPT !.semaphore = @ + locks]
             s1 == Call(s0, <<"std_put", Flagged(type)>>)
             s2 == Call(s0, <<"std_put", Act(type)>>)
             pid == Len(mobs.puts) + 1
         IN /\ Len(s1.mobs.puts) >= pid
            /\ s1.mobs.puts[pid].input = Flagged(type)
            /\ s1.mobs.puts[pid].invoked = Accepting(NextTakers(mc), Flagged(type))
            /\ locks = 1 =>
                 /\ s2.mobs.puts = mobs.puts
                 /\ s2.effects = effects
                 /\ Len(s2.queue) = Len(queue) + 1
                 /\ s2.queue[Len(s2.queue)].input = Act(type)
  /\ \A pid \in 1..Len(mobs.puts) :
       LET put == mobs.puts[pid] IN
       IF put.input.saga
       THEN \A d \in sobs.deferred : d.id # put.task
       ELSE \E d \in sobs.deferred : d.id = put.task /\ d.issuedIn # put.task

\* a saga resumed by the delivery of A dispatched B without the flag; B
\* was delivered to a taker in a scheduled task of its own
C26_Witness ==
  \E pid \in 1..Len(mobs.puts) :
    LET put == mobs.puts[pid] IN
    /\ put.input = Act("B")
    /\ put.invoked # <<>>
    /\ \E d \in sobs.deferred : d.id = put.task /\ d.issuedIn \notin {0, put.task}

----------------------------------------------------------------------------
(* The middleware *)

\* where call n of the middleware did ev
At(ev, n) == {i \in 1..Len(pobs.trace) : pobs.trace[i].ev = ev /\ pobs.trace[i].n = n}

\* the only element of a set of one element
The(S) == CHOOSE x \in S : TRUE

(* C27: every call of the middleware has notified the monitor once, then  *)
(* called next(action) once, and only after next has returned has the     *)
(* action entered the put of the multicast channel, once unless its task  *)
(* is still in the scheduler's queue, and with it the takers; the call    *)
(* has returned what next returned.                                       *)
C27_MiddlewareOrder ==
  \A n \in 1..pobs.dispatched :
    /\ Cardinality(At("monitor", n)) = 1
    /\ Cardinality(At("next", n)) = 1
    /\ The(At("monitor", n)) < The(At("next", n))
    /\ pobs.trace[The(At("monitor", n))].v = pobs.trace[The(At("next", n))].v
    /\ Cardinality(At("put", n)) <= 1
    /\ At("put", n) = {} => \E i \in 1..Len(queue) : queue[i].k = "stdput" /\ queue[i].mw = n
    /\ \A i \in At("put", n) :
         /\ The(At("next", n)) < i
         /\ pobs.trace[i].v = pobs.trace[The(At("next", n))].v
    /\ Cardinality(At("return", n)) = 1
    /\ pobs.trace[The(At("return", n))].v = pobs.trace[The(At("next", n))].v
    /\ \A i \in At("put", n) :
         pobs.trace[i].v.saga => i < The(At("return", n))

\* a saga resumed by the delivery of A called store.dispatch(B): the
\* monitor, next and the return of that call come before B is put, and the
\* saga waiting for B was resumed with B
C27_Witness ==
  /\ pobs.dispatched = 2
  /\ \A n \in {1, 2} : \A ev \in {"next", "put", "return"} : At(ev, n) # {}
  /\ pobs.trace[The(At("next", 2))].v = Act("B")
  /\ The(At("put", 1)) < The(At("monitor", 2))
  /\ The(At("return", 2)) < The(At("put", 2))
  /\ \E e \in 1..Len(effects) : effects[e].res = <<[v |-> Act("B"), isErr |-> FALSE]>>

----------------------------------------------------------------------------
(* The event channel *)

\* what close and the emitter leave unchanged on a channel that is closed
Untouched(s) ==
  /\ ~Threw(s)
  /\ s.chans = chans /\ s.cobs = cobs
  /\ [s.evt EXCEPT !.closed = evt.closed] = evt

(* C28: for an event channel, whatever was emitted, taken and closed, and *)
(* also when END was emitted inside subscribe: the host's unsubscribe     *)
(* function has been called once and the inner channel is closed if END   *)
(* was emitted or close was called, and otherwise it has not been called  *)
(* and the channel is open; on a closed event channel close changes       *)
(* nothing and an emitted value is dropped.                               *)
C28_UnsubscribeOnce ==
  evt.made =>
    /\ evt.ended => (evt.unsubs = 1 /\ chans[1].closed)
    /\ ~evt.ended => (evt.unsubs = 0 /\ ~chans[1].closed)
    /\ chans[1].closed =>
         /\ Untouched(Call(St, <<"ec_close">>))
         /\ \A input \in {Act("x"), END} : Untouched(Call(St, <<"emitter", input>>))

\* END was emitted inside subscribe: when eventChannel returns, the channel
\* is closed and the host's unsubscribe function has been called
C28_Witness ==
  /\ evt.made /\ evt.closed /\ evt.unsubs = 1 /\ evt.called
  /\ chans[1].closed
  /\ steps = 1

----------------------------------------------------------------------------
\* the signals of the fork queues: <<p, i>> is the i-th call of cb by the
\* queue of p
Signals == {<<p, i>> \in (1..Len(procs)) \X (1..4) : i <= Len(procs[p].signals)}

\* C29: when a fork queue signals its parent (completion or error), every
\* task ever added to it has completed, aborted or been cancelled, as many
\* as there were addTask calls, and the queue holds no member.
C29_AllAddedTerminated ==
  \A x \in Signals :
    LET g == procs[x[1]].signals[x[2]]
    IN /\ Cardinality(g.terminated) = Len(g.added)
       /\ g.held = <<>>

\* the same for the queues no member of which was added while the queue
\* was cancelling its members
C29_AddedBeforeCancelAll ==
  \A x \in Signals :
    LET g == procs[x[1]].signals[x[2]]
    IN procs[x[1]].saga # "abortInCleanup"
         => /\ Cardinality(g.terminated) = Len(g.added)
            /\ g.held = <<>>

\* a queue has signalled an error after cancelling a fork and its main task,
\* and another has signalled completion
C29_Witness ==
  /\ \E x \in Signals : LET g == procs[x[1]].signals[x[2]]
                         IN g.isErr /\ Len(g.added) >= 3
  /\ \E x \in Signals : ~procs[x[1]].signals[x[2]].isErr
----------------------------------------------------------------------------
\* the registration numbers of the takers in an array
RidsOf(takers) == {takers[i].rid : i \in 1..Len(takers)}

\* the removals made from a callback while a put was iterating
RemovedInPut == {i \in 1..Len(mobs.cancels) :
                   /\ mobs.cancels[i].removed
                   /\ ~mobs.cancels[i].own
                   /\ mobs.cancels[i].during # <<>>}

\* C30: a taker another taker's callback removes while a put iterates is
\* still invoked by that put when it was registered at its entry and
\* accepts the input; no put entered after the removal has it among its
\* takers or invokes it.
C30_RemovedStillInvoked ==
  \A i \in RemovedInPut :
    LET c == mobs.cancels[i] IN
      /\ \A n \in 1..Len(c.during) :
           LET g == mobs.puts[c.during[n]]
           IN (\E k \in 1..Len(g.entry) :
                 g.entry[k].rid = c.rid /\ Matches(g.entry[k].pat, g.input))
                => \E k \in 1..Len(g.invoked) : g.invoked[k] = c.rid
      /\ \A pid \in 1..Len(mobs.puts) :
           pid > c.puts
             => /\ c.rid \notin RidsOf(mobs.puts[pid].entry)
                /\ \A k \in 1..Len(mobs.puts[pid].invoked) :
                     mobs.puts[pid].invoked[k] # c.rid

\* the callback of taker 1 removed taker 2 while the first put iterated;
\* that put invoked both, and a second put of the same input found no taker
C30_Witness ==
  /\ Len(mobs.puts) = 2
  /\ RidsOf(mobs.puts[1].entry) = {1, 2}
  /\ mobs.puts[1].invoked = <<1, 2>>
  /\ \E i \in RemovedInPut : mobs.cancels[i].rid = 2 /\ mobs.cancels[i].during = <<1>>
  /\ mobs.puts[2].input = mobs.puts[1].input
  /\ mobs.puts[2].entry = <<>>
  /\ mobs.puts[2].invoked = <<>>
  /\ steps = 4
----------------------------------------------------------------------------
\* the task handles as end shows them to the callbacks it invokes:
\* <<p, i>> is the i-th callback end of p has invoked
Shown == {<<p, i>> \in (1..Len(procs)) \X (1..4) : i <= Len(procs[p].seen)}

\* between two calls the joiners of a task are null iff it is not running
JoinersAtRest == \A p \in 1..Len(procs) : procs[p].joinersNull <=> ~procs[p].isRunning

----------------------------------------------------------------------------
\* the procedures whose iterator has returned or thrown
MainTerminated == {p \in 1..Len(procs) : ~procs[p].mainTask.isMainRunning}

\* C32: next, called for a procedure whose main task has terminated, throws
\* the error of a double resume and does not advance the iterator: it
\* passes nothing to the iterator and calls no continuation.
C32_DoubleResumeIsFatal ==
  \A p \in MainTerminated :
    \A isErr \in BOOLEAN :
      LET after == Call(St, <<"next", p, Undef, isErr>>)
      IN /\ Threw(after)
         /\ after.exc = Err("Trying to resume an already finished generator")
         /\ after.procs[p].lateResumes = <<>>
         /\ after.procs = procs

\* no run resumes a procedure whose main task has terminated: the callback
\* of an effect is called once, and the main task is cancelled while it runs
C32_NoLateResume == \A p \in 1..Len(procs) : procs[p].lateResumes = <<>>
----------------------------------------------------------------------------
\* what was delivered in state s after the deliveries of the current state
Since(s) == SubSeq(s.cobs.delivered, Len(cobs.delivered) + 1, Len(s.cobs.delivered))

\* the deliveries in ds to the callbacks numbered in rids
To(ds, rids) == SelectSeq(ds, LAMBDA d : d[1] \in rids)

\* C33: close() on a single-consumer channel delivers END once to every
\* taker outstanding at the call, in registration order, and leaves the
\* takers queue empty; a second close() delivers nothing; a put on a closed
\* channel changes nothing.
C33_CloseEndsTakersOnce ==
  LET ch == chans[1]
      rids == {ch.takers[i].rid : i \in 1..Len(ch.takers)}
      s1 == Call(St, <<"chan_close", 1>>)
      s2 == Call(s1, <<"chan_close", 1>>)
  IN /\ ~Threw(s1)
     /\ s1.chans[1].closed /\ s1.chans[1].takers = <<>>
     /\ ~ch.closed =>
          To(Since(s1), rids) = [i \in 1..Len(ch.takers) |-> <<ch.takers[i].rid, END>>]
     /\ ch.closed => s1 = St
     /\ s2 = s1
     /\ ch.closed =>
          \A x \in {"x", "y"} : Call(St, <<"chan_put", 1, Act(x)>>) = St

\* two takers were waiting when the channel was closed: each was given END,
\* the older first, and none is left
C33_Witness ==
  /\ chans[1].closed /\ chans[1].takers = <<>>
  /\ cobs.delivered = << <<1, END>>, <<2, END>> >>
  /\ steps = 3
----------------------------------------------------------------------------
\* an input no callback of the test bench puts
Fresh == Act("z")

\* the calls of cancel that removed a registered taker
CancelledTakers == {i \in 1..Len(cobs.cancels) : cobs.cancels[i].removed}

\* C34: a put on an open single-consumer channel with pending takers is
\* delivered to exactly one taker, the oldest registered, which is removed
\* before it is invoked (a put its callback makes does not reach it again);
\* a taker that was cancelled is invoked by no later put or close.
C34_PutReachesOldestTaker ==
  LET ch == chans[1]
      s1 == Call(St, <<"chan_put", 1, Fresh>>)
  IN /\ (~ch.closed /\ ch.takers # <<>>) =>
          /\ Since(s1)[1] = <<ch.takers[1].rid, Fresh>>
          /\ To(Since(s1), {ch.takers[1].rid}) = << <<ch.takers[1].rid, Fresh>> >>
          /\ \A i \in 2..Len(Since(s1)) : Since(s1)[i][2] # Fresh
          /\ \A i \in 1..Len(s1.chans[1].takers) :
               s1.chans[1].takers[i].rid # ch.takers[1].rid
     /\ \A n \in CancelledTakers :
          \A i \in 1..Len(cobs.delivered) :
            i > cobs.cancels[n].at => cobs.delivered[i][1] # cobs.cancels[n].rid

\* taker 1 was cancelled while takers 1 and 2 waited, and a put is
\* delivered to taker 2 alone
C34_Witness ==
  /\ \E n \in CancelledTakers : cobs.cancels[n].rid = 1 /\ cobs.cancels[n].at = 0
  /\ ~chans[1].closed /\ Len(chans[1].takers) = 1 /\ chans[1].takers[1].rid = 2
  /\ cobs.delivered = <<>>
  /\ To(Since(Call(St, <<"chan_put", 1, Fresh>>)), {1, 2}) = << <<2, Fresh>> >>
----------------------------------------------------------------------------
\* the put effects, and those of them whose task waits in the queue
Puts == {e \in 1..Len(effects) : effects[e].ins.op = "put"}
Queued == {queue[i].e : i \in {j \in 1..Len(queue) : queue[j].k = "puteff"}}

\* the calls of put of the standard channel made for the put effect e
PutsFor(e) ==
  {i \in 1..Len(mobs.puts) :
     /\ mobs.puts[i].by = effects[e].p
     /\ mobs.puts[i].input = [Act(effects[e].ins.a) EXCEPT !.saga = TRUE]}

\* C35: a put effect is not cancellable once it is handed to the scheduler:
\* its action is put exactly once, also when the task that yielded it was
\* cancelled before the scheduler ran it, and its completion then does not
\* resume the procedure.
C35_PutNotCancellable ==
  \A e \in Puts :
    /\ effects[e].ran <= 1
    /\ e \notin Queued => effects[e].ran = 1
    /\ effects[e].ran = 1 => PutsFor(e) # {}
    /\ effects[e].ranCancelled =>
         /\ effects[e].nCb = 0
         /\ Pos(effects[e].p, "put-done") = {}

\* the task that yielded a put was cancelled while the put waited in the
\* queue; the put was made all the same, a saga that took B has run, and
\* the completion of the put was ignored
C35_Witness ==
  \E e \in Puts :
    /\ effects[e].ranCancelled /\ effects[e].ran = 1
    /\ procs[effects[e].p].isCancelled
    /\ effects[e].ignored = 1
    /\ PutsFor(e) # {}
    /\ \E q \in 1..Len(procs) : procs[q].saga = "onB" /\ Pos(q, "B-start") # {}

----------------------------------------------------------------------------
(* C36: task context isolation *)

\* the places in pobs.ctx before place i where proc p set prop
SetsBefore(p, prop, i) ==
  {j \in 1..(i - 1) : /\ pobs.ctx[j].ev = "set"
                      /\ pobs.ctx[j].p = p
                      /\ pobs.ctx[j].prop = prop}

Latest(S) == CHOOSE j \in S : \A k \in S : k <= j

\* what taskContext[prop] of proc p is at place i of pobs.ctx, by the
\* setContext effects yielded before: the value p set last, else the
\* parent's, else the one of options.context
RECURSIVE Expected(_, _, _)
Expected(p, prop, i) ==
  IF p = 0 THEN RootContext[prop]
  ELSE IF SetsBefore(p, prop, i) # {} THEN pobs.ctx[Latest(SetsBefore(p, prop, i))].v
  ELSE Expected(procs[p].parentContext, prop, i)

Gets == {i \in 1..Len(pobs.ctx) : pobs.ctx[i].ev = "get"}

\* C36: every getContext(prop) of a proc returns the value the proc set for
\* prop last if it set one, and otherwise what its parent's getContext(prop)
\* would return at that moment, so that no setContext of a child or of a
\* sibling changes the value a getContext returns
C36_ContextIsolation ==
  \A i \in Gets : pobs.ctx[i].v = Expected(pobs.ctx[i].p, pobs.ctx[i].prop, i)

\* a child has set a property and read its own value back, and afterwards
\* its parent or a sibling has read another value of the same property
C36_Witness ==
  \E i, j \in Gets :
    LET c == pobs.ctx[i].p
        q == pobs.ctx[j].p
    IN /\ i < j
       /\ pobs.ctx[i].prop = pobs.ctx[j].prop
       /\ procs[c].parentContext # 0
       /\ SetsBefore(c, pobs.ctx[i].prop, i) # {}
       /\ q # c
       /\ q = procs[c].parentContext \/ procs[q].parentContext = procs[c].parentContext
       /\ pobs.ctx[j].v # pobs.ctx[i].v
       /\ pobs.ctx[j].v # Undef

\* a child that set no value for a property reads the value its parent set
\* after the child was forked
C36_WitnessInherits ==
  \E i \in Gets :
    LET c == pobs.ctx[i].p
        o == procs[c].parentContext
    IN /\ o # 0
       /\ SetsBefore(c, pobs.ctx[i].prop, i) = {}
       /\ pobs.ctx[i].v = Num("2")

----------------------------------------------------------------------------
(* C37: the terminal status of a task *)

\* the tasks that have stopped running
Terminal == {p \in 1..Len(procs) : ~procs[p].isRunning}

\* result and error of the task p are the ones its first call of end wrote
FixedByFirstEnd(p) ==
  LET first == procs[p].ends[1]
  IN /\ procs[p].ends # <<>>
     /\ IF first.isErr THEN procs[p].error = first.v /\ procs[p].result = Undef
        ELSE procs[p].result = first.v /\ procs[p].error = Undef

\* C37: a task that has stopped running is not both aborted and cancelled,
\* and its result and error are the ones it stopped with
C37_TerminalStatusExclusiveAndStable ==
  \A p \in Terminal : /\ ~(procs[p].isAborted /\ procs[p].isCancelled)
                      /\ FixedByFirstEnd(p)

\* between the calls made from outside, the fields of a task that has
\* stopped running do not change
C37_StableBetweenCalls ==
  [][\A p \in Terminal : /\ procs'[p].isRunning = procs[p].isRunning
                         /\ procs'[p].isAborted = procs[p].isAborted
                         /\ procs'[p].isCancelled = procs[p].isCancelled
                         /\ procs'[p].result = procs[p].result
                         /\ procs'[p].error = procs[p].error]_vars

----------------------------------------------------------------------------
(* C38: the semaphore is balanced *)

\* C38: the semaphore is never negative, and every call of asap and every
\* suspend/flush pair, of a fork effect or of a task, leaves the semaphore
\* at the value it found, whether or not a task or the forked child throws
C38_SemaphoreBalanced ==
  /\ semaphore >= 0
  /\ ~sobs.negative
  /\ \A c \in sobs.calls : c.after = c.before

\* a task run by asap has thrown, a suspend/flush pair made by a task has
\* ended with an exception, and a fork effect whose child threw in its first
\* slice has run
C38_Witness ==
  /\ \E c \in sobs.calls : c.op = "asap" /\ c.threw /\ c.before = 0
  /\ \E c \in sobs.calls : c.op = "pair" /\ c.threw
  /\ \E c \in sobs.calls : c.op = "fork" /\ c.threw

----------------------------------------------------------------------------
(* C39: the scheduler strands no work *)

\* the tasks that have been executed, in the order of their execution
Executed == sobs.executed

\* C39: between the calls made from outside, when no scheduled task is on
\* the stack, a semaphore of 0 goes with an empty queue
C39_NeverStrandsWork == semaphore = 0 => queue = <<>>

\* the tasks are executed in the order asap was given them, none twice, and
\* a task that has not been executed is in the queue
C39_ExecutedInOrder ==
  /\ \A i, j \in 1..Len(Executed) : i < j => Executed[i] < Executed[j]
  /\ \A id \in 1..(sobs.nextJob - 1) :
       \/ \E i \in 1..Len(Executed) : Executed[i] = id
       \/ \E i \in 1..Len(queue) : queue[i].id = id

\* tasks are left in the queue under a semaphore of 0 only by a call that
\* ended with an exception
C39_StrandedOnlyAfterThrow == (semaphore = 0 /\ queue # <<>>) => sobs.uncaught > 0

----------------------------------------------------------------------------
(* C40: task.cancel() on a running task *)

\* cancel() of the task p does something: p is running and not cancelled
Cancellable(p) == procs[p].isRunning /\ ~procs[p].isCancelled

OnlyTaskCancel == <<[v |-> TASK_CANCEL, isErr |-> FALSE]>>

\* in the state s1 that cancel() of p leaves, p has stopped running, end has
\* been called once, with TASK_CANCEL, the continuation of p has been called
\* once if p has one, and every effect joined to p has received TASK_CANCEL
Delivered(p, s1) ==
  /\ ~Threw(s1)
  /\ ~s1.procs[p].isRunning
  /\ s1.procs[p].ends = OnlyTaskCancel
  /\ s1.procs[p].conts = IF procs[p].cont.k = "null" THEN 0 ELSE 1
  /\ \A i \in 1..Len(procs[p].joiners) :
       LET e == procs[p].joiners[i].e
       IN s1.effects[e].res = Append(effects[e].res, OnlyTaskCancel[1])

\* C40: task.cancel() on a running task stops the task and hands TASK_CANCEL
\* to its continuation and to its joiners before it returns, and a task that
\* was cancelled calls its continuation and end no more than once
C40_CancelDeliversTaskCancel ==
  /\ \A p \in 1..Len(procs) : Cancellable(p) => Delivered(p, AfterCancel(p))
  /\ \A p \in 1..Len(procs) :
       procs[p].isCancelled => procs[p].conts <= 1 /\ Len(procs[p].ends) <= 1

\* the same of the calls of cancel() during which the task does not abort
C40_CancelDeliversUnlessAborted ==
  /\ \A p \in 1..Len(procs) :
       (Cancellable(p) /\ ~AfterCancel(p).procs[p].isAborted)
         => Delivered(p, AfterCancel(p))
  /\ \A p \in 1..Len(procs) :
       (procs[p].isCancelled /\ ~procs[p].isAborted)
         => procs[p].conts <= 1 /\ Len(procs[p].ends) <= 1

\* cancel() of a task with a joiner leaves the iterator of the task in its
\* cleanup, on an effect that has not completed
C40_PendingCleanup ==
  \E p \in 1..Len(procs) :
    /\ Cancellable(p)
    /\ procs[p].joiners # <<>>
    /\ LET a == AfterCancel(p)
       IN /\ ~a.procs[p].isRunning
          /\ ~a.procs[p].done
          /\ a.procs[p].mainTask.isMainRunning
          /\ ~a.effects[a.procs[p].cur].settled
====
